---- MODULE Spec2Model ----
(***************************************************************************)
(* Model of the SSD1322 driver: the image4bit.HorizontalNibble pixel store *)
(* (packed 4-bit raster) and the ssd1322.Dev device session (full-frame    *)
(* Write, differential Draw, Halt and the control commands) over a         *)
(* transport whose every call may fail.                                    *)
(***************************************************************************)
EXTENDS Integers, Sequences, FiniteSets, TLC

VARIABLES
    img,    \* image4bit: the HorizontalNibble under test (st = "none" before creation)
    icall,  \* image4bit: the last call made on img, with its arguments
    isets,  \* image4bit: number of Set/SetGray4 calls made so far
    d,      \* ssd1322: the Dev (live = FALSE until NewSPI has returned one)
    call,   \* ssd1322: the last call made on the driver, with its arguments
    ret,    \* ssd1322: what the last call returned (err = "" for nil, n for Write)
    tx,     \* ssd1322: the transport calls the last call made, in order
    ncalls, \* ssd1322: number of Write, Draw and Halt calls made so far
    again   \* ssd1322: whether the last Write or Draw repeated the call before it

ivars == <<img, icall, isets>>

dvars == <<d, call, ret, tx, ncalls, again>>

vars == <<img, icall, isets, d, call, ret, tx, ncalls, again>>

(***************************************************************************)
(* Bounds of the model.                                                    *)
(***************************************************************************)
MaxImgW == 4        \* widest image rectangle tried
MaxImgH == 2        \* tallest image rectangle tried
MaxSets == 2        \* pixel writes per image
MaxW == 4           \* widest display on which frames are written and drawn
MaxH == 2           \* tallest display on which frames are written and drawn
MaxCalls == 2       \* Write, Draw and Halt calls per device

(***************************************************************************)
(* Go integer and uint8 arithmetic.                                        *)
(***************************************************************************)
\* Go's integer division truncates toward zero.
GoDiv(a, b) == IF a >= 0 THEN a \div b ELSE -((-a) \div b)

\* Go's remainder has the sign of the dividend.
GoRem(a, b) == a - b * GoDiv(a, b)

RECURSIVE BitAnd(_, _)
BitAnd(a, b) ==
    IF a = 0 \/ b = 0 THEN 0
    ELSE (a % 2) * (b % 2) + 2 * BitAnd(a \div 2, b \div 2)

RECURSIVE BitOr(_, _)
BitOr(a, b) ==
    IF a = 0 THEN b
    ELSE IF b = 0 THEN a
    ELSE (IF a % 2 = 1 \/ b % 2 = 1 THEN 1 ELSE 0) + 2 * BitOr(a \div 2, b \div 2)

\* a &^ b (bit clear)
RECURSIVE BitAndNot(_, _)
BitAndNot(a, b) ==
    IF a = 0 THEN 0
    ELSE (IF a % 2 = 1 /\ b % 2 = 0 THEN 1 ELSE 0) + 2 * BitAndNot(a \div 2, b \div 2)

\* uint8 shifts
Shl8(a, s) == (a * (2 ^ s)) % 256
Shr8(a, s) == a \div (2 ^ s)

(***************************************************************************)
(* Let(v, F) is F(v) with v evaluated once, as a Go statement evaluates    *)
(* the value it assigns once, however often the rest of the function       *)
(* reads it.                                                               *)
(***************************************************************************)
Let(v, F(_)) == CHOOSE out \in { F(x) : x \in {v} } : TRUE

(***************************************************************************)
(* image.Point and image.Rectangle of the Go standard library, as the      *)
(* driver uses them.                                                       *)
(***************************************************************************)
Pt(x, y) == [X |-> x, Y |-> y]

Rectangle(x0, y0, x1, y1) == [Min |-> Pt(x0, y0), Max |-> Pt(x1, y1)]

Dx(r) == r.Max.X - r.Min.X
Dy(r) == r.Max.Y - r.Min.Y

\* image.Point.In
In(p, r) == r.Min.X <= p.X /\ p.X < r.Max.X /\ r.Min.Y <= p.Y /\ p.Y < r.Max.Y

(***************************************************************************)
(* image4bit: colors.                                                      *)
(***************************************************************************)
Gray4(y) == [kind |-> "Gray4", Y |-> y]

\* Any other color.Color, given by what its RGBA() returns (16-bit channels).
RGBA64(r, g, b, a) == [kind |-> "RGBA64", R |-> r, G |-> g, B |-> b, A |-> a]

White == RGBA64(65535, 65535, 65535, 65535)
Black == RGBA64(0, 0, 0, 65535)

\* The weighted sum is a uint32; with 16-bit channels it is at most 65535500,
\* below 2^31, so it is computed here without wrapping.
toGray4(c) ==
    IF c.kind = "Gray4" THEN c
    ELSE LET y == (299 * c.R + 587 * c.G + 114 * c.B + 500) \div 1000
         IN  Gray4((y \div (2 ^ 12)) % 256)

(***************************************************************************)
(* image4bit: HorizontalNibble.                                            *)
(***************************************************************************)
\* st = "ok": a store; "panic": the constructor panicked; "none": not created.
Image(pix, stride, rect) == [st |-> "ok", Pix |-> pix, Stride |-> stride, Rect |-> rect]

NoImage == [st |-> "none", Pix |-> <<>>, Stride |-> 0, Rect |-> Rectangle(0, 0, 0, 0)]

Panicked == [st |-> "panic", Pix |-> <<>>, Stride |-> 0, Rect |-> Rectangle(0, 0, 0, 0)]

\* make([]byte, n)
Zeros(n) == [i \in 1..n |-> 0]

\* Mutant: the even-width check runs before the negative-size check.
NewHorizontalNibble_OddFirst(r) ==
    LET w == Dx(r)
        h == Dy(r)
    IN  IF GoRem(w, 2) # 0 THEN Panicked
        ELSE IF w < 0 \/ h < 0 THEN Image(<<>>, 0, r)
        ELSE Image(Zeros((w \div 2) * h), w \div 2, r)

\* Mutant: one byte per pixel (the stride is not halved).
NewHorizontalNibble_BytePerPixel(r) ==
    LET w == Dx(r)
        h == Dy(r)
    IN  IF w < 0 \/ h < 0 THEN Image(<<>>, 0, r)
        ELSE IF GoRem(w, 2) # 0 THEN Panicked
        ELSE Image(Zeros(w * h), w, r)

NewHorizontalNibble(r) ==
    LET w == Dx(r)
        h == Dy(r)
    IN  IF w < 0 \/ h < 0 THEN Image(<<>>, 0, r)
        ELSE IF GoRem(w, 2) # 0 THEN Panicked
        ELSE Image(Zeros((w \div 2) * h), w \div 2, r)

\* Mutant: nibble order toggled (even x in the low nibble).
pixOffset_LowFirst(p, x, y) ==
    [offset |-> (y - p.Rect.Min.Y) * p.Stride + GoDiv(x - p.Rect.Min.X, 2),
     shift  |-> 4 * (x % 2)]

\* Byte offset (0-based, as in the source) and bit shift of pixel (x, y).
pixOffset(p, x, y) ==
    [offset |-> (y - p.Rect.Min.Y) * p.Stride + GoDiv(x - p.Rect.Min.X, 2),
     shift  |-> 4 * (1 - (x % 2))]

\* p.Pix[offset] with Go's 0-based index
PixAt(p, offset) == p.Pix[offset + 1]

Gray4At(p, x, y) ==
    IF ~In(Pt(x, y), p.Rect) THEN Gray4(0)
    ELSE LET o == pixOffset(p, x, y)
         IN  Gray4(BitAnd(Shr8(PixAt(p, o.offset), o.shift), 15))

\* Mutant: the old nibble is not cleared before the new one is or-ed in.
SetGray4_NoClear(p, x, y, c) ==
    IF ~In(Pt(x, y), p.Rect) THEN p
    ELSE LET o == pixOffset(p, x, y)
             b == BitOr(PixAt(p, o.offset), Shl8(BitAnd(c.Y, 15), o.shift))
         IN  [p EXCEPT !.Pix[o.offset + 1] = b]

\* Mutant: an out-of-range x is clamped to the nearest column instead of ignored.
SetGray4_Clamp(p, x, y, c) ==
    IF ~(p.Rect.Min.Y <= y /\ y < p.Rect.Max.Y) \/ Dx(p.Rect) <= 0 THEN p
    ELSE LET cx == IF x < p.Rect.Min.X THEN p.Rect.Min.X
                   ELSE IF x >= p.Rect.Max.X THEN p.Rect.Max.X - 1 ELSE x
             o == pixOffset(p, cx, y)
             b == BitOr(BitAndNot(PixAt(p, o.offset), Shl8(15, o.shift)),
                        Shl8(BitAnd(c.Y, 15), o.shift))
         IN  [p EXCEPT !.Pix[o.offset + 1] = b]

\* Mutant: the whole byte is replaced, so the pixel sharing it is cleared.
SetGray4_WholeByte(p, x, y, c) ==
    IF ~In(Pt(x, y), p.Rect) THEN p
    ELSE LET o == pixOffset(p, x, y)
             b == Shl8(BitAnd(c.Y, 15), o.shift)
         IN  [p EXCEPT !.Pix[o.offset + 1] = b]

SetGray4(p, x, y, c) ==
    IF ~In(Pt(x, y), p.Rect) THEN p
    ELSE LET o == pixOffset(p, x, y)
             b == BitOr(BitAndNot(PixAt(p, o.offset), Shl8(15, o.shift)),
                        Shl8(BitAnd(c.Y, 15), o.shift))
         IN  [p EXCEPT !.Pix[o.offset + 1] = b]

Set(p, x, y, c) ==
    IF ~In(Pt(x, y), p.Rect) THEN p
    ELSE LET o == pixOffset(p, x, y)
             gray4 == toGray4(c)
             b == BitOr(BitAndNot(PixAt(p, o.offset), Shl8(15, o.shift)),
                        Shl8(BitAnd(gray4.Y, 15), o.shift))
         IN  [p EXCEPT !.Pix[o.offset + 1] = b]

(***************************************************************************)
(* image4bit: the calls a client makes on one image.                       *)
(***************************************************************************)
\* Sizes at the device's limits and its defaults (src/ssd1322.go:3-4).
DeviceSizes == {<<480, 128>>, <<256, 64>>, <<128, 64>>, <<480, 1>>, <<2, 128>>}

\* Origins tried: (0,0), an odd Min.X, and an even Min.X with a non-zero Min.Y.
Origins == {Pt(0, 0), Pt(1, 0), Pt(2, 1)}

\* Rectangles tried: small ones at each origin, including empty and inverted ones
\* (w or h <= 0), and the device sizes at the origin.
ImgRects ==
    { Rectangle(o.X, o.Y, o.X + w, o.Y + h) :
        o \in Origins, w \in -1..MaxImgW, h \in -1..MaxImgH }
    \cup { Rectangle(0, 0, s[1], s[2]) : s \in DeviceSizes }

\* Pixel calls are explored on the stores within the small bounds.
Small(p) == Dx(p.Rect) <= MaxImgW /\ Dy(p.Rect) <= MaxImgH

\* Gray4 values tried: one that fits in 4 bits, one with high bits set.
GrayYs == {5, 250}

\* Colors tried with Set.
SetColors == {White}

\* Coordinates tried: the rectangle and one pixel beyond each of its sides.
ProbeXs(p) == (p.Rect.Min.X - 1)..(p.Rect.Max.X)
ProbeYs(p) == (p.Rect.Min.Y - 1)..(p.Rect.Max.Y)
Probes(p) ==
    { q \in { Pt(x, y) : x \in ProbeXs(p), y \in ProbeYs(p) } :
        (p.Rect.Min.X <= q.X /\ q.X < p.Rect.Max.X) \/ (p.Rect.Min.Y <= q.Y /\ q.Y < p.Rect.Max.Y) }

NoCall == [op |-> "none"]

(***************************************************************************)
(* image.Rectangle operations used by Draw and by draw.Draw.               *)
(***************************************************************************)
ZR == Rectangle(0, 0, 0, 0)

Empty(r) == r.Min.X >= r.Max.X \/ r.Min.Y >= r.Max.Y

Intersect(r, s) ==
    LET t == Rectangle(IF r.Min.X < s.Min.X THEN s.Min.X ELSE r.Min.X,
                       IF r.Min.Y < s.Min.Y THEN s.Min.Y ELSE r.Min.Y,
                       IF r.Max.X > s.Max.X THEN s.Max.X ELSE r.Max.X,
                       IF r.Max.Y > s.Max.Y THEN s.Max.Y ELSE r.Max.Y)
    IN  IF Empty(t) THEN ZR ELSE t

PtSub(p, q) == Pt(p.X - q.X, p.Y - q.Y)

RectAdd(r, p) == Rectangle(r.Min.X + p.X, r.Min.Y + p.Y, r.Max.X + p.X, r.Max.Y + p.Y)

(***************************************************************************)
(* Source images handed to Draw: a HorizontalNibble, or an image.Uniform   *)
(* (any other image.Image type; its bounds are the whole plane).           *)
(***************************************************************************)
Uniform(c) == [st |-> "uniform", C |-> c]

IsHorizontalNibble(src) == src.st = "ok"

SrcBounds(src) ==
    IF IsHorizontalNibble(src) THEN src.Rect
    ELSE Rectangle(-1000000000, -1000000000, 1000000000, 1000000000)

SrcAt(src, x, y) == IF IsHorizontalNibble(src) THEN Gray4At(src, x, y) ELSE src.C

\* The pixel loop of draw.Draw (op Src, no mask): row by row, left to right,
\* dst.Set(x, y, src.At(sx, sy)); k counts the pixels already drawn.
RECURSIVE DrawLoop(_, _, _, _, _)
DrawLoop(p, r, src, sp, k) ==
    IF k >= Dx(r) * Dy(r) THEN p
    ELSE LET ix == k % Dx(r)
             iy == k \div Dx(r)
         IN  Let(Set(p, r.Min.X + ix, r.Min.Y + iy, SrcAt(src, sp.X + ix, sp.Y + iy)),
                 LAMBDA q : DrawLoop(q, r, src, sp, k + 1))

\* draw.Draw(p, r, src, sp, draw.Src): clip r to p and to the source, then copy.
drawDraw(p, r, src, sp) ==
    LET orig == r.Min
        r1   == Intersect(r, p.Rect)
        r2   == Intersect(r1, RectAdd(SrcBounds(src), PtSub(orig, sp)))
        sp2  == Pt(sp.X + (r2.Min.X - orig.X), sp.Y + (r2.Min.Y - orig.Y))
    IN  IF Empty(r2) THEN p
        ELSE Let(<<r2, sp2>>, LAMBDA c : DrawLoop(p, c[1], src, c[2], 0))

(***************************************************************************)
(* The transport: the data/command pin, the reset pin and the SPI          *)
(* connection. Every call may fail; bus.fail is the number of the call     *)
(* that fails in this operation (0: none), bus.log the calls made.         *)
(***************************************************************************)
Bus(fail) == [log |-> <<>>, fail |-> fail, err |-> ""]

BusCall(bus, entry, errText) ==
    Let(bus, LAMBDA b :
        LET ok == Len(b.log) + 1 # b.fail
        IN  [b EXCEPT !.log = Append(@, entry @@ [ok |-> ok]),
                      !.err = IF ok THEN "" ELSE errText])

\* if err := ...; err != nil { return err }; and then F
Then(bus, F(_)) == Let(bus, LAMBDA b : IF b.err # "" THEN b ELSE F(b))

\* p.Connect(10MHz, Mode0, 8)
Connect(bus) == BusCall(bus, [op |-> "Connect"], "connect error")

\* d.dc.Out(level)
dcOut(bus, level) == BusCall(bus, [op |-> "dc.Out", level |-> level], "dc error")

\* d.rst.Out(level)
rstOut(bus, level) == BusCall(bus, [op |-> "rst.Out", level |-> level], "rst error")

\* d.c.Tx(w, nil)
cTx(bus, w) == BusCall(bus, [op |-> "c.Tx", w |-> w], "tx error")

\* byte(x)
Byte(x) == x % 256

sendCommands(bus, cmds) == Then(dcOut(bus, "Low"), LAMBDA b : cTx(b, cmds))

sendCommand(bus, cmd) == sendCommands(bus, <<cmd>>)

sendData(bus, data) == Then(dcOut(bus, "High"), LAMBDA b : cTx(b, data))

\* Mutant of writeRect: the payload is sent whatever became of the commands.
writeRect_DataRegardless(dev, bus, x, y, width, height, pixels) ==
    LET colStart == Byte(GoDiv(x + dev.columnOffset, 2))
        colEnd   == Byte(GoDiv(x + width - 1 + dev.columnOffset, 2))
        commands == <<21, colStart, colEnd, 117, Byte(y), Byte(y + height - 1), 92>>
    IN  Let(sendCommands(bus, commands), LAMBDA b : sendData(b, pixels))

\* Mutant of writeRect: the column window ignores the centring offset.
writeRect_NoOffset(dev, bus, x, y, width, height, pixels) ==
    LET colStart == Byte(GoDiv(x, 2))
        colEnd   == Byte(GoDiv(x + width - 1, 2))
        commands == <<21, colStart, colEnd, 117, Byte(y), Byte(y + height - 1), 92>>
    IN  Then(sendCommands(bus, commands), LAMBDA b : sendData(b, pixels))

\* Mutant of writeRect: the column window is counted in pixels, not in cells.
writeRect_PixelColumns(dev, bus, x, y, width, height, pixels) ==
    LET colStart == Byte(x + dev.columnOffset)
        colEnd   == Byte(x + width - 1 + dev.columnOffset)
        commands == <<21, colStart, colEnd, 117, Byte(y), Byte(y + height - 1), 92>>
    IN  Then(sendCommands(bus, commands), LAMBDA b : sendData(b, pixels))

writeRect(dev, bus, x, y, width, height, pixels) ==
    LET colStart == Byte(GoDiv(x + dev.columnOffset, 2))
        colEnd   == Byte(GoDiv(x + width - 1 + dev.columnOffset, 2))
        commands == <<21, colStart, colEnd, 117, Byte(y), Byte(y + height - 1), 92>>
    IN  Then(sendCommands(bus, commands), LAMBDA b : sendData(b, pixels))

writeFullFrame(dev, bus, pixels) ==
    writeRect(dev, bus, 0, 0, Dx(dev.rect), Dy(dev.rect), pixels)

clearRAM(dev, bus) ==
    LET colStart == Byte(GoDiv(dev.columnOffset, 2))
        colEnd   == Byte(GoDiv(dev.columnOffset + Dx(dev.rect) - 1, 2))
        commands == <<21, colStart, colEnd, 117, 0, Byte(Dy(dev.rect) - 1), 92>>
    IN  Then(sendCommands(bus, commands),
             LAMBDA b : sendData(b, Zeros(GoDiv(Dx(dev.rect) * Dy(dev.rect), 2))))

\* The initialization command sequence built by init.
InitCommands(opts) ==
    LET remap1 == IF opts.Rotated THEN 6 ELSE 20
        r2a    == 17
        r2b    == IF opts.Sequential THEN BitOr(r2a, 1) ELSE r2a
        remap2 == IF opts.SwapTopBottom THEN BitOr(r2b, 2) ELSE r2b
    IN  <<253, 18, 174, 179, 242, 202, Byte(opts.H - 1), 162, 0, 161, 0>>
        \o <<160, remap1, remap2, 171, 1, 180, 160, 253, 193, 255, 199, 15, 185,
             177, 226, 209, 130, 32, 187, 31, 182, 8, 190, 7, 166, 169>>

\* init: hardware reset if a reset pin is given, the command sequence, clearRAM,
\* display ON. RST errors are wrapped by fmt.Errorf.
\* fmt.Errorf(format, err) on a failed call
Wrap(bus, prefix) == Let(bus, LAMBDA b : IF b.err # "" THEN [b EXCEPT !.err = prefix \o @] ELSE b)

\* Mutant of init: the display is turned on before its RAM is cleared.
init_OnBeforeClear(dev, bus, opts) ==
    LET reset(b0) ==
            IF dev.rst = "nil" THEN b0
            ELSE Then(Wrap(rstOut(b0, "Low"), "ssd1322: failed to pull RST low: "),
                      LAMBDA b : Wrap(rstOut(b, "High"), "ssd1322: failed to pull RST high: "))
    IN  Then(Then(Then(reset(bus),
                       LAMBDA b : sendCommands(b, InitCommands(opts))),
                  LAMBDA b : sendCommand(b, 175)),
             LAMBDA b : clearRAM(dev, b))

init(dev, bus, opts) ==
    LET reset(b0) ==
            IF dev.rst = "nil" THEN b0
            ELSE Then(Wrap(rstOut(b0, "Low"), "ssd1322: failed to pull RST low: "),
                      LAMBDA b : Wrap(rstOut(b, "High"), "ssd1322: failed to pull RST high: "))
    IN  Then(Then(Then(reset(bus),
                       LAMBDA b : sendCommands(b, InitCommands(opts))),
                  LAMBDA b : clearRAM(dev, b)),
             LAMBDA b : sendCommand(b, 175))

(***************************************************************************)
(* ssd1322.Dev                                                             *)
(***************************************************************************)
\* A nil *HorizontalNibble (d.next before the first differential Draw).
NilImage == [st |-> "nil", Pix |-> <<>>, Stride |-> 0, Rect |-> ZR]

\* The zero value of HorizontalNibble (d.lastDm before the first differential Draw).
ZeroImage == Image(<<>>, 0, ZR)

NoDev ==
    [live |-> FALSE, rst |-> "nil", rect |-> ZR, columnOffset |-> 0, buffer |-> <<>>,
     next |-> NilImage, lastDm |-> ZeroImage,
     minCol |-> 0, maxCol |-> 0, minRow |-> 0, maxRow |-> 0, halted |-> FALSE]

\* Mutant of NewDev: one byte per pixel, and no centring of the columns.
NewDev_BytePerPixel(opts) ==
    [live |-> TRUE, rst |-> opts.RST,
     rect |-> Rectangle(0, 0, opts.W, opts.H),
     columnOffset |-> 0,
     buffer |-> Zeros(opts.W * opts.H),
     next |-> NilImage, lastDm |-> ZeroImage,
     minCol |-> 0, maxCol |-> opts.W - 1, minRow |-> 0, maxRow |-> opts.H - 1,
     halted |-> FALSE]

\* Mutant of NewDev: the centring offset is counted in bytes, (480 - W)/4.
NewDev_OffsetInBytes(opts) ==
    [live |-> TRUE, rst |-> opts.RST,
     rect |-> Rectangle(0, 0, opts.W, opts.H),
     columnOffset |-> GoDiv(480 - opts.W, 4),
     buffer |-> Zeros(GoDiv(opts.W * opts.H, 2)),
     next |-> NilImage, lastDm |-> ZeroImage,
     minCol |-> 0, maxCol |-> opts.W - 1, minRow |-> 0, maxRow |-> opts.H - 1,
     halted |-> FALSE]

\* The Dev literal built by NewSPI.
NewDev(opts) ==
    [live |-> TRUE, rst |-> opts.RST,
     rect |-> Rectangle(0, 0, opts.W, opts.H),
     columnOffset |-> GoDiv(480 - opts.W, 2),
     buffer |-> Zeros(GoDiv(opts.W * opts.H, 2)),
     next |-> NilImage, lastDm |-> ZeroImage,
     minCol |-> 0, maxCol |-> opts.W - 1, minRow |-> 0, maxRow |-> opts.H - 1,
     halted |-> FALSE]

Opts(w, h, rotated, sequential, swap, rst) ==
    [nil |-> FALSE, W |-> w, H |-> h, Rotated |-> rotated, Sequential |-> sequential,
     SwapTopBottom |-> swap, RST |-> rst]

\* A nil *Opts
NilOpts == [nil |-> TRUE]

\* opts = &Opts{W: 256, H: 64}
DefaultOpts == Opts(256, 64, FALSE, FALSE, FALSE, "nil")

\* calculateDiff: the column scan of one differing row.
RECURSIVE DiffCols(_, _, _, _, _, _)
DiffCols(last, nxt, rowStart, stride, x, acc) ==
    IF x >= stride THEN acc
    ELSE IF last[rowStart + x + 1] # nxt[rowStart + x + 1]
         THEN LET colStart == x * 2
                  colEnd   == colStart + 1
                  a1 == IF colStart < acc.minCol THEN [acc EXCEPT !.minCol = colStart] ELSE acc
                  a2 == IF colEnd > a1.maxCol THEN [a1 EXCEPT !.maxCol = colEnd] ELSE a1
              IN  Let(a2, LAMBDA a : DiffCols(last, nxt, rowStart, stride, x + 1, a))
         ELSE DiffCols(last, nxt, rowStart, stride, x + 1, acc)

\* calculateDiff: the row scan.
RECURSIVE DiffRows(_, _, _, _, _, _)
DiffRows(last, nxt, stride, height, y, acc) ==
    IF y >= height THEN acc
    ELSE LET rowStart == y * stride
             rowEnd   == rowStart + stride
         IN  IF SubSeq(last, rowStart + 1, rowEnd) # SubSeq(nxt, rowStart + 1, rowEnd)
             THEN LET a1 == IF y < acc.minRow THEN [acc EXCEPT !.minRow = y] ELSE acc
                      a2 == IF y > a1.maxRow THEN [a1 EXCEPT !.maxRow = y] ELSE a1
                  IN  Let(DiffCols(last, nxt, rowStart, stride, 0, a2),
                          LAMBDA a : DiffRows(last, nxt, stride, height, y + 1, a))
             ELSE DiffRows(last, nxt, stride, height, y + 1, acc)

\* Mutant of diffFrames: the scan starts from the rectangle (0, 0, 0, 0).
diffFrames_ZeroStart(last, nxt, width, height) ==
    LET stride == GoDiv(width, 2)
        align(a) ==
            LET a1 == IF GoRem(a.minCol, 2) # 0 THEN [a EXCEPT !.minCol = @ - 1] ELSE a
            IN  IF GoRem(a1.maxCol, 2) = 0 /\ a1.maxCol < width - 1
                THEN [a1 EXCEPT !.maxCol = @ + 1] ELSE a1
    IN  Let(DiffRows(last, nxt, stride, height, 0,
                     [minCol |-> 0, maxCol |-> 0, minRow |-> 0, maxRow |-> 0]),
            align)

\* Mutant of diffFrames: a change anywhere in a row reports the whole width.
diffFrames_FullWidth(last, nxt, width, height) ==
    LET stride == GoDiv(width, 2)
        align(a) ==
            IF a.minCol <= a.maxCol
            THEN [a EXCEPT !.minCol = 0, !.maxCol = width - 1] ELSE a
    IN  Let(DiffRows(last, nxt, stride, height, 0,
                     [minCol |-> width, maxCol |-> -1, minRow |-> height, maxRow |-> -1]),
            align)

\* Mutant of diffFrames: the last row is not scanned.
diffFrames_SkipLastRow(last, nxt, width, height) ==
    LET stride == GoDiv(width, 2)
        align(a) ==
            LET a1 == IF GoRem(a.minCol, 2) # 0 THEN [a EXCEPT !.minCol = @ - 1] ELSE a
            IN  IF GoRem(a1.maxCol, 2) = 0 /\ a1.maxCol < width - 1
                THEN [a1 EXCEPT !.maxCol = @ + 1] ELSE a1
    IN  Let(DiffRows(last, nxt, stride, height - 1, 0,
                     [minCol |-> width, maxCol |-> -1, minRow |-> height, maxRow |-> -1]),
            align)

\* Mutant of diffFrames: maxCol is the column after the last changed one.
diffFrames_EndExclusive(last, nxt, width, height) ==
    LET stride == GoDiv(width, 2)
        align(a) == IF a.minCol <= a.maxCol THEN [a EXCEPT !.maxCol = @ + 1] ELSE a
    IN  Let(DiffRows(last, nxt, stride, height, 0,
                     [minCol |-> width, maxCol |-> -1, minRow |-> height, maxRow |-> -1]),
            align)

\* Mutant of diffFrames: only the last changed row is reported.
diffFrames_LastRowOnly(last, nxt, width, height) ==
    LET stride == GoDiv(width, 2)
        align(a) ==
            LET a1 == IF GoRem(a.minCol, 2) # 0 THEN [a EXCEPT !.minCol = @ - 1] ELSE a
                a2 == IF GoRem(a1.maxCol, 2) = 0 /\ a1.maxCol < width - 1
                      THEN [a1 EXCEPT !.maxCol = @ + 1] ELSE a1
            IN  IF a2.minRow <= a2.maxRow THEN [a2 EXCEPT !.minRow = a2.maxRow] ELSE a2
    IN  Let(DiffRows(last, nxt, stride, height, 0,
                     [minCol |-> width, maxCol |-> -1, minRow |-> height, maxRow |-> -1]),
            align)

\* calculateDiff on the frames last (d.lastDm.Pix) and nxt (d.next.Pix) of a
\* width x height display.
diffFrames(last, nxt, width, height) ==
    LET stride == GoDiv(width, 2)
        align(a) ==
            LET a1 == IF GoRem(a.minCol, 2) # 0 THEN [a EXCEPT !.minCol = @ - 1] ELSE a
            IN  IF GoRem(a1.maxCol, 2) = 0 /\ a1.maxCol < width - 1
                THEN [a1 EXCEPT !.maxCol = @ + 1] ELSE a1
    IN  Let(DiffRows(last, nxt, stride, height, 0,
                     [minCol |-> width, maxCol |-> -1, minRow |-> height, maxRow |-> -1]),
            align)

calculateDiff(dev) ==
    diffFrames(dev.lastDm.Pix, dev.next.Pix, Dx(dev.rect), Dy(dev.rect))

\* copy(result[dstIdx:], src)
CopyAt(result, dstIdx, src) ==
    [i \in 1..Len(result) |->
        IF i > dstIdx /\ i <= dstIdx + Len(src) THEN src[i - dstIdx] ELSE result[i]]

\* extractRegion: the row loop; y is the next row to copy.
RECURSIVE ExtractRows(_, _, _, _, _, _, _, _)
ExtractRows(pix, stride, minCol, byteWidth, y, maxRow, dstIdx, result) ==
    IF y > maxRow THEN result
    ELSE LET srcStart == y * stride + GoDiv(minCol, 2)
         IN  Let(CopyAt(result, dstIdx, SubSeq(pix, srcStart + 1, srcStart + byteWidth)),
                 LAMBDA res : ExtractRows(pix, stride, minCol, byteWidth, y + 1, maxRow,
                                          dstIdx + byteWidth, res))

\* Mutant of extractFrom: a row is read from byte minCol, not minCol/2.
extractFrom_PixelOffset(pix, width0, minCol, maxCol, minRow, maxRow) ==
    LET width     == maxCol - minCol + 1
        height    == maxRow - minRow + 1
        stride    == GoDiv(width0, 2)
        byteWidth == GoDiv(width, 2)
        bad == \/ byteWidth * height < 0
               \/ \E y \in minRow..maxRow :
                     LET srcStart == y * stride + minCol
                     IN  \/ srcStart < 0
                         \/ srcStart > srcStart + byteWidth
                         \/ srcStart + byteWidth > Len(pix)
    IN  IF bad THEN [panic |-> TRUE, data |-> <<>>]
        ELSE [panic |-> FALSE,
              data |-> ExtractRows(pix, stride, minCol * 2, byteWidth, minRow, maxRow, 0,
                                   Zeros(byteWidth * height))]

\* extractRegion on the frame pix of a display width0 pixels wide. A negative make
\* length or a slice expression out of range panics.
extractFrom(pix, width0, minCol, maxCol, minRow, maxRow) ==
    LET width     == maxCol - minCol + 1
        height    == maxRow - minRow + 1
        stride    == GoDiv(width0, 2)
        byteWidth == GoDiv(width, 2)
        bad == \/ byteWidth * height < 0
               \/ \E y \in minRow..maxRow :
                     LET srcStart == y * stride + GoDiv(minCol, 2)
                     IN  \/ srcStart < 0
                         \/ srcStart > srcStart + byteWidth
                         \/ srcStart + byteWidth > Len(pix)
    IN  IF bad THEN [panic |-> TRUE, data |-> <<>>]
        ELSE [panic |-> FALSE,
              data |-> ExtractRows(pix, stride, minCol, byteWidth, minRow, maxRow, 0,
                                   Zeros(byteWidth * height))]

extractRegion(dev, minCol, maxCol, minRow, maxRow) ==
    extractFrom(dev.next.Pix, Dx(dev.rect), minCol, maxCol, minRow, maxRow)

\* What again becomes when c is called: "no" unless c is the call made just
\* before, with the same arguments, and then how that call ended.
Again(c) ==
    IF c # call THEN "no" ELSE IF ret.err = "" THEN "afterOk" ELSE "afterFail"

\* What a call returned: the error text ("" for nil) and, for Write, the count.
Ret(err, n) == [err |-> err, n |-> n]

(***************************************************************************)
(* image4bit: the calls a client makes on one pixel store.                 *)
(***************************************************************************)
InitImg ==
    /\ img = NoImage
    /\ icall = NoCall
    /\ isets = 0
    /\ d = NoDev
    /\ call = NoCall
    /\ ret = Ret("", 0)
    /\ tx = <<>>
    /\ ncalls = 0
    /\ again = "no"

CallNewHorizontalNibble(r) ==
    /\ img.st = "none"
    /\ img' = NewHorizontalNibble(r)
    /\ icall' = [op |-> "NewHorizontalNibble", r |-> r]
    /\ UNCHANGED <<isets, dvars>>

CallSetGray4(x, y, c) ==
    /\ img.st = "ok" /\ Small(img)
    /\ isets < MaxSets
    /\ img' = SetGray4(img, x, y, c)
    /\ icall' = [op |-> "SetGray4", x |-> x, y |-> y, c |-> c, before |-> img]
    /\ isets' = isets + 1
    /\ UNCHANGED dvars

CallSet(x, y, c) ==
    /\ img.st = "ok" /\ Small(img)
    /\ isets < MaxSets
    /\ img' = Set(img, x, y, c)
    /\ icall' = [op |-> "Set", x |-> x, y |-> y, c |-> c, before |-> img]
    /\ isets' = isets + 1
    /\ UNCHANGED dvars

NextImg ==
    \/ \E r \in ImgRects : CallNewHorizontalNibble(r)
    \/ \E q \in Probes(img), y4 \in GrayYs : CallSetGray4(q.X, q.Y, Gray4(y4))
    \/ \E q \in Probes(img), c \in SetColors : CallSet(q.X, q.Y, c)

SpecImg == InitImg /\ [][NextImg]_vars

(***************************************************************************)
(* ssd1322: the calls a client makes on one device.                        *)
(***************************************************************************)
ErrHalted == "ssd1322: halted"

\* Widths and heights tried with NewSPI: around zero, the small displays, and the
\* controller's limits.
LimitSizes ==
    {<<479, 1>>, <<480, 1>>, <<481, 1>>, <<482, 1>>, <<2, 128>>, <<2, 129>>, <<480, 128>>}

\* Options tried with NewSPI: none, the small sizes and the sizes at the limits
\* with no flag set, and every combination of the flags on a 128x64 display.
OptsTried ==
    {NilOpts}
    \cup { Opts(w, h, FALSE, FALSE, FALSE, "nil") : w \in -1..MaxW, h \in -1..MaxH }
    \cup { Opts(s[1], s[2], FALSE, FALSE, FALSE, "nil") : s \in LimitSizes }
    \cup { Opts(128, 64, rot, seq, swap, rst) :
             rot \in BOOLEAN, seq \in BOOLEAN, swap \in BOOLEAN, rst \in {"nil", "pin"} }

\* Byte values of the frames tried.
ByteVals == {0, 171}

\* Frames of n bytes tried: uniform ones, and ones with a single non-zero byte at
\* the first or the last position.
Frames(n) ==
    { [i \in 1..n |-> b] : b \in ByteVals }
    \cup { [i \in 1..n |-> IF i = k THEN 171 ELSE 0] : k \in {1, n} \cap (1..n) }

\* Frames are written and drawn on the displays within the small bounds.
SmallDev(dev) == Dx(dev.rect) <= MaxW /\ Dy(dev.rect) <= MaxH

\* Buffers tried with Write: the frames, and buffers one byte short or long.
WriteBuffers(dev) ==
    Frames(Len(dev.buffer)) \cup {Zeros(Len(dev.buffer) - 1), Zeros(Len(dev.buffer) + 1)}

\* Sources tried with Draw: full-size HorizontalNibble images and a uniform image.
DrawSources(dev) ==
    { Image(f, GoDiv(Dx(dev.rect), 2), dev.rect) : f \in Frames(Len(dev.buffer)) }
    \cup {Uniform(Gray4(10))}

\* Destinations and source points tried with Draw: the whole display from the
\* source's origin and from one pixel to the right, the first byte column, and a
\* rectangle beside the display.
DrawPlaces(dev) ==
    {<<dev.rect, Pt(0, 0)>>,
     <<dev.rect, Pt(1, 0)>>,
     <<Rectangle(0, 0, 2, Dy(dev.rect)), Pt(0, 0)>>,
     <<Rectangle(Dx(dev.rect), 0, Dx(dev.rect) + 2, 1), Pt(0, 0)>>}

\* Rows and directions tried with ScrollHorizontal: the whole display both ways,
\* and a start row and an end row just below the display.
ScrollArgs(dev) ==
    {<<0, Dy(dev.rect) - 1, TRUE>>, <<0, Dy(dev.rect) - 1, FALSE>>,
     <<Dy(dev.rect), Dy(dev.rect) - 1, FALSE>>, <<0, Dy(dev.rect), TRUE>>}

\* Number of transport calls NewSPI, a region write and a command can make.
NewSPICalls == 11
WriteRectCalls == 4
CommandCalls == 2

Init ==
    /\ d = NoDev
    /\ call = NoCall
    /\ ret = Ret("", 0)
    /\ tx = <<>>
    /\ ncalls = 0
    /\ again = "no"
    /\ img = NoImage
    /\ icall = NoCall
    /\ isets = 0

\* NewSPI is the first call of a behaviour: each behaviour follows the one device
\* it returns. fail is the number of the transport call that fails (0: none).
NewSPI(opts, fail) ==
    /\ call = NoCall
    /\ call' = [op |-> "NewSPI", opts |-> opts]
    /\ again' = "no"
    /\ LET o == IF opts.nil THEN DefaultOpts ELSE opts
       IN  IF o.W <= 0 \/ GoRem(o.W, 2) # 0 \/ o.W > 480
           THEN /\ fail = 0
                /\ ret' = Ret("ssd1322: width must be even and between 2 and 480", 0)
                /\ tx' = <<>>
                /\ UNCHANGED d
           ELSE IF o.H <= 0 \/ o.H > 128
           THEN /\ fail = 0
                /\ ret' = Ret("ssd1322: height must be between 1 and 128", 0)
                /\ tx' = <<>>
                /\ UNCHANGED d
           ELSE \E dev \in {NewDev(o)} :
                     \E b \in {Then(Connect(Bus(fail)), LAMBDA b0 : init(dev, b0, o))} :
                        /\ fail <= Len(b.log)
                        /\ tx' = b.log
                        /\ ret' = Ret(b.err, 0)
                        /\ d' = IF b.err # "" THEN d ELSE dev
    /\ UNCHANGED <<ncalls, ivars>>

\* Mutant of Write: the length of pixels is not checked.
Write_NoSizeCheck(pixels, fail) ==
    /\ d.live /\ SmallDev(d) /\ ncalls < MaxCalls
    /\ call' = [op |-> "Write", pixels |-> pixels]
    /\ again' = Again([op |-> "Write", pixels |-> pixels])
    /\ ncalls' = ncalls + 1
    /\ UNCHANGED ivars
    /\ IF d.halted
       THEN fail = 0 /\ ret' = Ret(ErrHalted, 0) /\ tx' = <<>> /\ UNCHANGED d
       ELSE \E b \in {writeFullFrame(d, Bus(fail), pixels)} :
                /\ fail <= Len(b.log)
                /\ tx' = b.log
                /\ IF b.err # ""
                   THEN ret' = Ret(b.err, 0) /\ UNCHANGED d
                   ELSE /\ ret' = Ret("", Len(pixels))
                        /\ d' = [d EXCEPT !.buffer = CopyAt(@, 0, pixels)]

\* Mutant of Write: the caller's slice, of any length, becomes the stored frame.
Write_StoresSlice(pixels, fail) ==
    /\ d.live /\ SmallDev(d) /\ ncalls < MaxCalls
    /\ call' = [op |-> "Write", pixels |-> pixels]
    /\ again' = Again([op |-> "Write", pixels |-> pixels])
    /\ ncalls' = ncalls + 1
    /\ UNCHANGED ivars
    /\ IF d.halted
       THEN fail = 0 /\ ret' = Ret(ErrHalted, 0) /\ tx' = <<>> /\ UNCHANGED d
       ELSE \E b \in {writeFullFrame(d, Bus(fail), pixels)} :
                /\ fail <= Len(b.log)
                /\ tx' = b.log
                /\ IF b.err # ""
                   THEN ret' = Ret(b.err, 0) /\ UNCHANGED d
                   ELSE /\ ret' = Ret("", Len(pixels))
                        /\ d' = [d EXCEPT !.buffer = pixels]

\* Mutant of Write: a buffer equal to the stored frame is not sent again.
Write_SkipUnchanged(pixels, fail) ==
    /\ d.live /\ SmallDev(d) /\ ncalls < MaxCalls
    /\ call' = [op |-> "Write", pixels |-> pixels]
    /\ again' = Again([op |-> "Write", pixels |-> pixels])
    /\ ncalls' = ncalls + 1
    /\ UNCHANGED ivars
    /\ IF d.halted
       THEN fail = 0 /\ ret' = Ret(ErrHalted, 0) /\ tx' = <<>> /\ UNCHANGED d
       ELSE IF Len(pixels) # Len(d.buffer)
       THEN /\ fail = 0
            /\ ret' = Ret("ssd1322: invalid buffer size", 0)
            /\ tx' = <<>>
            /\ UNCHANGED d
       ELSE IF pixels = d.buffer
       THEN /\ fail = 0
            /\ ret' = Ret("", Len(pixels))
            /\ tx' = <<>>
            /\ UNCHANGED d
       ELSE \E b \in {writeFullFrame(d, Bus(fail), pixels)} :
                /\ fail <= Len(b.log)
                /\ tx' = b.log
                /\ IF b.err # ""
                   THEN ret' = Ret(b.err, 0) /\ UNCHANGED d
                   ELSE /\ ret' = Ret("", Len(pixels))
                        /\ d' = [d EXCEPT !.buffer = CopyAt(@, 0, pixels)]

Write(pixels, fail) ==
    /\ d.live /\ SmallDev(d) /\ ncalls < MaxCalls
    /\ call' = [op |-> "Write", pixels |-> pixels]
    /\ again' = Again([op |-> "Write", pixels |-> pixels])
    /\ ncalls' = ncalls + 1
    /\ UNCHANGED ivars
    /\ IF d.halted
       THEN fail = 0 /\ ret' = Ret(ErrHalted, 0) /\ tx' = <<>> /\ UNCHANGED d
       ELSE IF Len(pixels) # Len(d.buffer)
       THEN /\ fail = 0
            /\ ret' = Ret("ssd1322: invalid buffer size", 0)
            /\ tx' = <<>>
            /\ UNCHANGED d
       ELSE \E b \in {writeFullFrame(d, Bus(fail), pixels)} :
                /\ fail <= Len(b.log)
                /\ tx' = b.log
                /\ IF b.err # ""
                   THEN ret' = Ret(b.err, 0) /\ UNCHANGED d
                   ELSE /\ ret' = Ret("", Len(pixels))
                        /\ d' = [d EXCEPT !.buffer = CopyAt(@, 0, pixels)]

\* The differential path of Draw up to calculateDiff: the device with src rendered
\* into d.next, and the bounding box of the change.
DrawRender(dev, dst, src, sp) ==
    LET lazyInit ==
            IF dev.next.st = "nil"
            THEN LET nx == NewHorizontalNibble(dev.rect)
                 IN  [dev EXCEPT !.next = nx,
                                 !.lastDm = Image(CopyAt(Zeros(Len(dev.buffer)), 0, dev.buffer),
                                                  nx.Stride, dev.rect)]
            ELSE dev
    IN  Let(lazyInit, LAMBDA d1 :
            Let([d1 EXCEPT !.next = drawDraw(@, dst, src, sp)], LAMBDA d2 :
                [dev |-> d2, diff |-> calculateDiff(d2)]))

\* Mutant of DrawSend: the diff baseline is updated even when writeRect failed.
DrawSend_CommitOnError(d2, df, bus) ==
    IF df.minCol > df.maxCol
    THEN [dev |-> d2, bus |-> bus]
    ELSE Let(writeRect(d2, bus, df.minCol, df.minRow,
                       df.maxCol - df.minCol + 1, df.maxRow - df.minRow + 1,
                       extractRegion(d2, df.minCol, df.maxCol, df.minRow, df.maxRow).data),
             LAMBDA b :
                IF b.err # ""
                THEN [dev |-> [d2 EXCEPT !.lastDm.Pix = CopyAt(@, 0, d2.next.Pix)], bus |-> b]
                ELSE [dev |-> [d2 EXCEPT !.buffer = CopyAt(@, 0, d2.next.Pix),
                                         !.lastDm.Pix = CopyAt(@, 0, d2.next.Pix)],
                      bus |-> b])

\* The rest of the differential path: extractRegion, writeRect and, if that
\* succeeded, the update of the stored buffers.
DrawSend(d2, df, bus) ==
    IF df.minCol > df.maxCol
    THEN [dev |-> d2, bus |-> bus]
    ELSE Let(writeRect(d2, bus, df.minCol, df.minRow,
                       df.maxCol - df.minCol + 1, df.maxRow - df.minRow + 1,
                       extractRegion(d2, df.minCol, df.maxCol, df.minRow, df.maxRow).data),
             LAMBDA b :
                IF b.err # ""
                THEN [dev |-> d2, bus |-> b]
                ELSE [dev |-> [d2 EXCEPT !.buffer = CopyAt(@, 0, d2.next.Pix),
                                         !.lastDm.Pix = CopyAt(@, 0, d2.next.Pix)],
                      bus |-> b])

\* Mutant of Draw: a destination outside the display is not returned on early.
Draw_NoEmptyCheck(dst0, src, sp, fails) ==
    /\ d.live /\ SmallDev(d) /\ ncalls < MaxCalls
    /\ call' = [op |-> "Draw", dst |-> dst0, src |-> src, sp |-> sp]
    /\ again' = Again([op |-> "Draw", dst |-> dst0, src |-> src, sp |-> sp])
    /\ ncalls' = ncalls + 1
    /\ UNCHANGED ivars
    /\ IF d.halted
       THEN ret' = Ret(ErrHalted, 0) /\ tx' = <<>> /\ UNCHANGED d
       ELSE LET dst == Intersect(dst0, d.rect)
            IN  IF IsHorizontalNibble(src) /\ dst = d.rect /\ sp = Pt(0, 0)
                   /\ src.Rect = d.rect
                THEN \E fail \in fails :
                       \E b \in {writeFullFrame(d, Bus(fail), src.Pix)} :
                         /\ fail <= Len(b.log)
                         /\ tx' = b.log
                         /\ ret' = Ret(b.err, 0)
                         /\ UNCHANGED d
                ELSE \E r \in {DrawRender(d, dst, src, sp)} :
                       \E fail \in fails :
                         \E s \in {DrawSend(r.dev, r.diff, Bus(fail))} :
                           /\ fail <= Len(s.bus.log)
                           /\ tx' = s.bus.log
                           /\ ret' = Ret(s.bus.err, 0)
                           /\ d' = s.dev

\* Draw(dst0, src, sp) on a transport whose call number fail fails, for each fail
\* in fails.
Draw(dst0, src, sp, fails) ==
    /\ d.live /\ SmallDev(d) /\ ncalls < MaxCalls
    /\ call' = [op |-> "Draw", dst |-> dst0, src |-> src, sp |-> sp]
    /\ again' = Again([op |-> "Draw", dst |-> dst0, src |-> src, sp |-> sp])
    /\ ncalls' = ncalls + 1
    /\ UNCHANGED ivars
    /\ IF d.halted
       THEN ret' = Ret(ErrHalted, 0) /\ tx' = <<>> /\ UNCHANGED d
       ELSE LET dst == Intersect(dst0, d.rect)
            IN  IF Empty(dst)
                THEN ret' = Ret("", 0) /\ tx' = <<>> /\ UNCHANGED d
                ELSE IF IsHorizontalNibble(src) /\ dst = d.rect /\ sp = Pt(0, 0)
                        /\ src.Rect = d.rect
                THEN \E fail \in fails :
                       \E b \in {writeFullFrame(d, Bus(fail), src.Pix)} :
                         /\ fail <= Len(b.log)
                         /\ tx' = b.log
                         /\ ret' = Ret(b.err, 0)
                         /\ UNCHANGED d
                ELSE \E r \in {DrawRender(d, dst, src, sp)} :
                       \E fail \in fails :
                         \E s \in {DrawSend(r.dev, r.diff, Bus(fail))} :
                           /\ fail <= Len(s.bus.log)
                           /\ tx' = s.bus.log
                           /\ ret' = Ret(s.bus.err, 0)
                           /\ d' = s.dev

\* Mutant of Control: the halted flag is not consulted.
Control_NoHaltCheck(c, cmds, fail) ==
    /\ d.live
    /\ call' = c
    /\ again' = "no"
    /\ UNCHANGED <<d, ncalls, ivars>>
    /\ \E b \in {sendCommands(Bus(fail), cmds)} :
           tx' = b.log /\ ret' = Ret(b.err, 0)

\* A control call that sends cmds unless the device is halted.
Control(c, cmds, fail) ==
    /\ d.live
    /\ call' = c
    /\ again' = "no"
    /\ UNCHANGED <<d, ncalls, ivars>>
    /\ IF d.halted
       THEN fail = 0 /\ ret' = Ret(ErrHalted, 0) /\ tx' = <<>>
       ELSE \E b \in {sendCommands(Bus(fail), cmds)} :
                tx' = b.log /\ ret' = Ret(b.err, 0)

SetContrast(contrast, fail) ==
    Control([op |-> "SetContrast", contrast |-> contrast], <<193, contrast>>, fail)

Invert(invert, fail) ==
    Control([op |-> "Invert", invert |-> invert], <<IF invert THEN 167 ELSE 166>>, fail)

ScrollHorizontal(startRow, endRow, speed, right, fail) ==
    /\ d.live
    /\ call' = [op |-> "ScrollHorizontal", startRow |-> startRow, endRow |-> endRow,
                speed |-> speed, right |-> right]
    /\ again' = "no"
    /\ UNCHANGED <<d, ncalls, ivars>>
    /\ IF d.halted
       THEN fail = 0 /\ ret' = Ret(ErrHalted, 0) /\ tx' = <<>>
       ELSE IF startRow >= Dy(d.rect) \/ endRow >= Dy(d.rect)
       THEN fail = 0 /\ ret' = Ret("ssd1322: scroll row out of range", 0) /\ tx' = <<>>
       ELSE \E b \in {sendCommands(Bus(fail),
                           <<IF right THEN 39 ELSE 38, 0, startRow, speed, endRow, 0, 0, 47>>)} :
                tx' = b.log /\ ret' = Ret(b.err, 0)

StopScroll(fail) == Control([op |-> "StopScroll"], <<46>>, fail)

\* Mutant of Halt: the halted flag is set only when the command was sent.
Halt_FlagOnSuccess(fail) ==
    /\ d.live /\ ncalls < MaxCalls
    /\ call' = [op |-> "Halt"]
    /\ again' = Again([op |-> "Halt"])
    /\ ncalls' = ncalls + 1
    /\ \E b \in {sendCommand(Bus(fail), 174)} :
           /\ d' = [d EXCEPT !.halted = @ \/ b.err = ""]
           /\ tx' = b.log
           /\ ret' = Ret(b.err, 0)
    /\ UNCHANGED ivars

Halt(fail) ==
    /\ d.live /\ ncalls < MaxCalls
    /\ call' = [op |-> "Halt"]
    /\ again' = Again([op |-> "Halt"])
    /\ ncalls' = ncalls + 1
    /\ \E b \in {sendCommand(Bus(fail), 174)} :
           /\ d' = [d EXCEPT !.halted = TRUE]
           /\ tx' = b.log
           /\ ret' = Ret(b.err, 0)
    /\ UNCHANGED ivars

Next ==
    \/ \E opts \in OptsTried, fail \in 0..NewSPICalls : NewSPI(opts, fail)
    \/ \E pixels \in WriteBuffers(d), fail \in 0..WriteRectCalls : Write(pixels, fail)
    \/ \E at \in DrawPlaces(d), src \in DrawSources(d) :
          Draw(at[1], src, at[2], 0..WriteRectCalls)
    \/ \E fail \in 0..CommandCalls : SetContrast(127, fail)
    \/ \E invert \in BOOLEAN, fail \in 0..CommandCalls : Invert(invert, fail)
    \/ \E a \in ScrollArgs(d), fail \in 0..CommandCalls :
          ScrollHorizontal(a[1], a[2], 1, a[3], fail)
    \/ \E fail \in 0..CommandCalls : StopScroll(fail)
    \/ \E fail \in 0..CommandCalls : Halt(fail)

Spec == Init /\ [][Next]_vars

(***************************************************************************)
(* calculateDiff and extractRegion, called as the package's tests call     *)
(* them: on a Dev literal with rect, next and lastDm filled in.            *)
(***************************************************************************)
\* Display sizes of the literals: even widths and heights within the small bounds.
DiffSizes == { <<w, h>> \in (2..MaxW) \X (1..MaxH) : w % 2 = 0 }

\* Every frame of n bytes over the byte values tried.
AllFrames(n) == [1..n -> ByteVals]

\* The frame 0x00, 0x11, 0x22, ... of TestExtractRegion: every byte differs.
Ramp(n) == [i \in 1..n |-> (17 * (i - 1)) % 256]

\* The literal of TestCalculateDiffNoChanges / TestCalculateDiffWithChanges.
DiffLiteral(w, h, last, nxt) ==
    [NoDev EXCEPT !.live = TRUE,
                  !.rect = Rectangle(0, 0, w, h),
                  !.buffer = Zeros(GoDiv(w * h, 2)),
                  !.next = Image(nxt, GoDiv(w, 2), Rectangle(0, 0, w, h)),
                  !.lastDm = Image(last, GoDiv(w, 2), Rectangle(0, 0, w, h))]

\* The literal of TestExtractRegion: buffer and lastDm keep their zero values.
ExtractLiteral(w, h, nxt) ==
    [NoDev EXCEPT !.live = TRUE,
                  !.rect = Rectangle(0, 0, w, h),
                  !.next = Image(nxt, GoDiv(w, 2), Rectangle(0, 0, w, h))]

\* The literals tried: every pair of frames on every small size, the frames of
\* TestCalculateDiffWithChanges, and for extractRegion the ramp and the frames
\* on every small size and the 8x2 ramp of TestExtractRegion.
DiffLiterals ==
    UNION { { DiffLiteral(s[1], s[2], last, nxt) :
                last \in AllFrames(GoDiv(s[1] * s[2], 2)),
                nxt \in AllFrames(GoDiv(s[1] * s[2], 2)) } : s \in DiffSizes }
    \cup {DiffLiteral(4, 2, Zeros(4), <<171, 205, 0, 0>>)}

ExtractLiterals ==
    UNION { { ExtractLiteral(s[1], s[2], nxt) :
                nxt \in Frames(GoDiv(s[1] * s[2], 2)) \cup {Ramp(GoDiv(s[1] * s[2], 2))} } :
            s \in DiffSizes }
    \cup {ExtractLiteral(8, 2, Ramp(8))}

\* The slice expressions d.lastDm.Pix[rowStart:rowEnd] and d.next.Pix[rowStart:rowEnd]
\* of calculateDiff panic when a row ends beyond one of the frames.
DiffPanics(dev) ==
    \E y \in 0..(Dy(dev.rect) - 1) :
        \/ (y + 1) * GoDiv(Dx(dev.rect), 2) > Len(dev.lastDm.Pix)
        \/ (y + 1) * GoDiv(Dx(dev.rect), 2) > Len(dev.next.Pix)

\* The rectangles extractRegion is called with: on a literal with a baseline the
\* rectangle calculateDiff returns (as Draw does when it reports a change), on a
\* literal without one every rectangle from two columns left of the frame to two
\* columns and one row beyond it, empty and inverted ones included.
ExtractArgs(dev) ==
    IF dev.lastDm # ZeroImage
    THEN LET df == calculateDiff(dev)
         IN  IF df.minCol > df.maxCol THEN {}
             ELSE {<<df.minCol, df.maxCol, df.minRow, df.maxRow>>}
    ELSE ((-2)..Dx(dev.rect)) \X ((-1)..(Dx(dev.rect) + 1))
            \X (0..Dy(dev.rect)) \X ((-1)..Dy(dev.rect))

InitDiff ==
    /\ d \in DiffLiterals \cup ExtractLiterals
    /\ call = NoCall
    /\ ret = Ret("", 0)
    /\ tx = <<>>
    /\ ncalls = 0
    /\ again = "no"
    /\ img = NoImage
    /\ icall = NoCall
    /\ isets = 0

\* minCol, maxCol, minRow, maxRow := d.calculateDiff(); each behaviour makes one
\* call on its literal, as each test does.
CallCalculateDiff ==
    /\ call = NoCall
    /\ call' = [op |-> "calculateDiff"]
    /\ \E r \in {IF DiffPanics(d) THEN [panic |-> TRUE]
                 ELSE calculateDiff(d) @@ [panic |-> FALSE]} : ret' = r
    /\ UNCHANGED <<d, tx, ncalls, again, ivars>>

\* region := d.extractRegion(minCol, maxCol, minRow, maxRow)
CallExtractRegion(minCol, maxCol, minRow, maxRow) ==
    /\ call = NoCall
    /\ call' = [op |-> "extractRegion", minCol |-> minCol, maxCol |-> maxCol,
                minRow |-> minRow, maxRow |-> maxRow]
    /\ \E r \in {extractRegion(d, minCol, maxCol, minRow, maxRow)} : ret' = r
    /\ UNCHANGED <<d, tx, ncalls, again, ivars>>

NextDiff ==
    \/ CallCalculateDiff
    \/ \E a \in ExtractArgs(d) : CallExtractRegion(a[1], a[2], a[3], a[4])

SpecDiff == InitDiff /\ [][NextDiff]_vars

(***************************************************************************)
(* image4bit: the color conversions, called on their own.                  *)
(***************************************************************************)
\* Gray4.RGBA: the low 4 bits of Y scaled to 16 bits, opaque. The uint32
\* product is at most 15 * 0x1111 = 0xFFFF and does not wrap.
RGBA(c) ==
    LET y == BitAnd(c.Y, 15) * 4369
    IN  RGBA64(y, y, y, 65535)

\* Channel values tried: the ends of the 16-bit range, the ends of the 8-bit
\* range, the values around a step of the 4-bit result, and the 0x8888 of
\* TestGray4ModelConvert.
ChannelVals == {0, 1, 255, 4095, 4096, 32767, 32768, 34952, 65535}

\* Colors tried with Gray4Model.Convert: every Gray4, and opaque colors over the
\* channel values (black and white among them).
ConvertColors ==
    { Gray4(y) : y \in 0..255 }
    \cup { RGBA64(r, g, b, 65535) : r \in ChannelVals, g \in ChannelVals, b \in ChannelVals }

InitColor ==
    /\ call = NoCall
    /\ ret = Ret("", 0)
    /\ d = NoDev
    /\ tx = <<>>
    /\ ncalls = 0
    /\ again = "no"
    /\ img = NoImage
    /\ icall = NoCall
    /\ isets = 0

\* r, g, b, a := c.RGBA() on a Gray4
CallRGBA(c) ==
    /\ call = NoCall
    /\ call' = [op |-> "RGBA", c |-> c]
    /\ ret' = RGBA(c)
    /\ UNCHANGED <<d, tx, ncalls, again, ivars>>

\* Gray4Model.Convert(c)
CallConvert(c) ==
    /\ call = NoCall
    /\ call' = [op |-> "Convert", c |-> c, of |-> c]
    /\ ret' = toGray4(c)
    /\ UNCHANGED <<d, tx, ncalls, again, ivars>>

\* Gray4Model.Convert(color.RGBA64{r, g, b, a}) with the channels that RGBA has
\* just returned for the Gray4 call.c.
CallConvertBack ==
    /\ call.op = "RGBA"
    /\ call' = [op |-> "Convert", c |-> ret, of |-> call.c]
    /\ ret' = toGray4(ret)
    /\ UNCHANGED <<d, tx, ncalls, again, ivars>>

NextColor ==
    \/ \E y \in 0..255 : CallRGBA(Gray4(y))
    \/ \E c \in ConvertColors : CallConvert(c)
    \/ CallConvertBack

SpecColor == InitColor /\ [][NextColor]_vars

(***************************************************************************)
(* Properties of the pixel store (checked under SpecImg).                  *)
(***************************************************************************)
InBounds(p, x, y) == In(Pt(x, y), p.Rect)

PixelsOf(p) == { Pt(x, y) : x \in p.Rect.Min.X..(p.Rect.Max.X - 1),
                            y \in p.Rect.Min.Y..(p.Rect.Max.Y - 1) }

HighNibble(b) == b \div 16
LowNibble(b) == b % 16

\* C1: for every in-bounds pixel (x,y) and every v in [0,255], SetGray4(x,y,Gray4{v})
\* followed by Gray4At(x,y) returns v & 0xF. Checked on the store each SetGray4 call
\* produced, and for every v in 0..255 on the store the call was made on.
C1_SetThenGet ==
    (icall.op = "SetGray4" /\ InBounds(img, icall.x, icall.y)) =>
        /\ Gray4At(img, icall.x, icall.y).Y = icall.c.Y % 16
        /\ \A v \in 0..255 :
             Gray4At(SetGray4(icall.before, icall.x, icall.y, Gray4(v)),
                     icall.x, icall.y).Y = v % 16

\* C1 witness: a value wider than 4 bits was written over a non-zero pixel and reads
\* back masked.
C1_Witness ==
    /\ icall.op = "SetGray4"
    /\ InBounds(img, icall.x, icall.y)
    /\ icall.c.Y = 250
    /\ Gray4At(icall.before, icall.x, icall.y).Y = 5
    /\ Gray4At(img, icall.x, icall.y).Y = 10

\* The 4x1 store of the package documentation: pixels 5,10,3,12.
DocExample ==
    SetGray4(SetGray4(SetGray4(SetGray4(
        NewHorizontalNibble(Rectangle(0, 0, 4, 1)),
        0, 0, Gray4(5)), 1, 0, Gray4(10)), 2, 0, Gray4(3)), 3, 0, Gray4(12))

\* C2: in a store whose bounds start at (0,0), pixel (x,y) lives at byte offset
\* y*stride + x/2 with stride = width/2, in the high nibble (shift 4) when x is even and
\* the low nibble (shift 0) when x is odd; pixels 5,10,3,12 on a 4x1 store give bytes
\* 0x5A,0x3C.
C2_ByteLayout ==
    /\ DocExample.Pix = <<90, 60>>
    /\ (img.st = "ok" /\ img.Rect.Min = Pt(0, 0)) =>
         \A q \in PixelsOf(img) :
            LET off == q.Y * (Dx(img.Rect) \div 2) + q.X \div 2
                b   == img.Pix[off + 1]
            IN  /\ pixOffset(img, q.X, q.Y) =
                       [offset |-> off, shift |-> IF q.X % 2 = 0 THEN 4 ELSE 0]
                /\ Gray4At(img, q.X, q.Y).Y =
                       IF q.X % 2 = 0 THEN HighNibble(b) ELSE LowNibble(b)
    /\ (icall.op \in {"SetGray4", "Set"} /\ img.Rect.Min = Pt(0, 0)
            /\ InBounds(img, icall.x, icall.y)) =>
         LET off == icall.y * (Dx(img.Rect) \div 2) + icall.x \div 2
             v   == toGray4(icall.c).Y % 16
         IN  img.Pix[off + 1] =
                IF icall.x % 2 = 0
                THEN v * 16 + LowNibble(icall.before.Pix[off + 1])
                ELSE HighNibble(icall.before.Pix[off + 1]) * 16 + v

\* C2 witness: in a (0,0)-based store of two rows, an odd pixel of the second row was
\* written next to a non-zero even pixel.
C2_Witness ==
    /\ icall.op = "SetGray4"
    /\ img.Rect = Rectangle(0, 0, 4, 2)
    /\ icall.x = 3 /\ icall.y = 1
    /\ img.Pix[4] = 90

\* C3 (as claimed): in every store, whatever its Rect.Min.X, the k-th pixel of a row
\* (k = x - Rect.Min.X) is in the high nibble of the row's byte k/2 when k is even and in
\* the low nibble when k is odd, so the row's first pixel is in the high nibble of the
\* row's first byte.
C3_LeftPixelHighNibble ==
    img.st = "ok" =>
        \A q \in PixelsOf(img) :
            LET k == q.X - img.Rect.Min.X
                b == img.Pix[(q.Y - img.Rect.Min.Y) * img.Stride + k \div 2 + 1]
            IN  Gray4At(img, q.X, q.Y).Y = IF k % 2 = 0 THEN HighNibble(b) ELSE LowNibble(b)

\* C4: outside the bounds Gray4At returns 0 and SetGray4/Set change no byte of the store.
C4_OutOfBounds ==
    /\ (icall.op \in {"SetGray4", "Set"} /\ ~InBounds(icall.before, icall.x, icall.y)) =>
          img = icall.before
    /\ img.st = "ok" =>
          \A q \in Probes(img) :
              ~InBounds(img, q.X, q.Y) =>
                  /\ Gray4At(img, q.X, q.Y).Y = 0
                  /\ \A v \in GrayYs : SetGray4(img, q.X, q.Y, Gray4(v)) = img
                  /\ \A c \in SetColors : Set(img, q.X, q.Y, c) = img

\* C4 witness: an out-of-bounds SetGray4 was made on a store that holds non-zero pixels.
C4_Witness ==
    /\ icall.op = "SetGray4"
    /\ ~InBounds(icall.before, icall.x, icall.y)
    /\ icall.x = icall.before.Rect.Min.X - 1
    /\ Len(img.Pix) > 0
    /\ \E i \in 1..Len(img.Pix) : img.Pix[i] # 0

CreatedAsSpecified(p, r) ==
    p = [st |-> "ok", Rect |-> r, Stride |-> Dx(r) \div 2,
         Pix |-> [i \in 1..((Dx(r) * Dy(r)) \div 2) |-> 0]]

\* C6: for every even width W in [2,480] and every height H in [1,128], creation succeeds
\* with stride W/2 and a zero-filled buffer of exactly W*H/2 bytes.
C6_CreateValid ==
    (icall.op = "NewHorizontalNibble"
          /\ Dx(icall.r) >= 2 /\ Dx(icall.r) % 2 = 0 /\ Dx(icall.r) <= 480
        /\ Dy(icall.r) >= 1 /\ Dy(icall.r) <= 128) =>
        CreatedAsSpecified(img, icall.r)

\* C6 witness: the largest store, 480x128, was created with 30720 zero bytes.
C6_Witness ==
    /\ icall.op = "NewHorizontalNibble"
    /\ Dx(icall.r) = 480 /\ Dy(icall.r) = 128
    /\ img.st = "ok" /\ img.Stride = 240 /\ Len(img.Pix) = 30720

(***************************************************************************)
(* Properties of the device (checked under Spec).                          *)
(***************************************************************************)
\* The options NewSPI works with: the default for nil options.
Effective(opts) == IF opts.nil THEN DefaultOpts ELSE opts

\* The sizes the SSD1322 cannot drive.
BadSize(o) == o.W <= 0 \/ o.W % 2 = 1 \/ o.W > 480 \/ o.H <= 0 \/ o.H > 128

\* The transport calls of the last operation all succeeded.
TxOk == \A i \in 1..Len(tx) : tx[i].ok

\* C7: NewSPI returns an error and no device without any transport call (not
\* even Connect) exactly when W <= 0, W is odd, W > 480, H <= 0 or H > 128, nil
\* options meaning 256x64; with a valid size and a transport that succeeds it
\* returns a device that is not halted, whose buffer is W*H/2 zero bytes and
\* whose columnOffset is (480 - W)/2.
C7_NewSPI ==
    call.op = "NewSPI" =>
        LET o == Effective(call.opts)
        IN  /\ BadSize(o) <=> (ret.err # "" /\ ~d.live /\ tx = <<>>)
            /\ call.opts.nil => o.W = 256 /\ o.H = 64
            /\ (~BadSize(o) /\ TxOk) =>
                  /\ ret.err = ""
                  /\ d.live /\ ~d.halted
                  /\ d.buffer = [i \in 1..((o.W * o.H) \div 2) |-> 0]
                  /\ d.columnOffset = (480 - o.W) \div 2

\* NewSPI(nil) on a working transport has returned a 256x64 device.
C7_Witness ==
    /\ call.op = "NewSPI" /\ call.opts.nil
    /\ ret.err = "" /\ d.live
    /\ Len(d.buffer) = 8192 /\ d.columnOffset = 112

\* The calls that refuse to work on a halted device.
HaltGuarded == {"Write", "Draw", "SetContrast", "Invert", "ScrollHorizontal", "StopScroll"}

\* C8: a call of Halt leaves the device halted, a halted device stays halted in
\* every later state, and every call of Write, Draw, SetContrast, Invert,
\* ScrollHorizontal or StopScroll on a halted device returns the halted error,
\* makes no transport call and changes no buffer or field of the device.
C8_HaltedForever ==
    [][/\ call'.op = "Halt" => d'.halted
       /\ d.halted =>
            /\ d'.halted
            /\ call'.op \in HaltGuarded =>
                  /\ ret' = Ret("ssd1322: halted", 0)
                  /\ tx' = <<>>
                  /\ d' = d]_vars

\* A Draw on a halted device has been refused.
C8_Witness ==
    /\ d.halted
    /\ call.op = "Draw" /\ ~Empty(Intersect(call.dst, d.rect))
    /\ ret.err = "ssd1322: halted" /\ tx = <<>>

\* C9: on a device that is not halted, Write with a buffer whose length is not
\* W*H/2 returns "ssd1322: invalid buffer size" and the count 0, makes no
\* transport call and leaves every buffer and field of the device as it was.
C9_WriteWrongSize ==
    [][(/\ ~d.halted
        /\ call'.op = "Write"
        /\ Len(call'.pixels) # (Dx(d.rect) * Dy(d.rect)) \div 2)
       => /\ ret' = Ret("ssd1322: invalid buffer size", 0)
          /\ tx' = <<>>
          /\ d' = d]_vars

\* A Write one byte too long has been refused after a differential Draw.
C9_Witness ==
    /\ ~d.halted /\ d.next.st = "ok"
    /\ call.op = "Write" /\ Len(call.pixels) = Len(d.buffer) + 1
    /\ ret = Ret("ssd1322: invalid buffer size", 0)

\* The frame the next differential Draw compares the rendered frame against:
\* d.lastDm once the double buffer exists, and until then d.buffer, which the
\* first differential Draw copies into d.lastDm.
Baseline(dev) == IF dev.next.st = "nil" THEN dev.buffer ELSE dev.lastDm.Pix

\* C10: after a Write(pixels) whose transport calls succeed, the committed
\* buffer equals pixels and so does the frame the next differential Draw
\* compares against, whether or not a differential Draw has run before.
C10_WriteSetsBaseline ==
    (call.op = "Write" /\ ret.err = "") =>
        /\ d.buffer = call.pixels
        /\ Baseline(d) = call.pixels

\* Draw call c on device dev takes the path for a full-size HorizontalNibble.
FastPath(dev, c) ==
    /\ IsHorizontalNibble(c.src)
    /\ Intersect(c.dst, dev.rect) = dev.rect
    /\ c.sp = Pt(0, 0)
    /\ c.src.Rect = dev.rect

\* The candidate frame of Draw call c, on the device dev it has left: the
\* source's pixels on the full-size path, the rendered frame d.next otherwise.
Candidate(dev, c) == IF FastPath(dev, c) THEN c.src.Pix ELSE dev.next.Pix

\* The last transport call of the last operation failed.
TxFailed == tx # <<>> /\ ~tx[Len(tx)].ok

\* The errors of the transport.
TransportErrors == {"dc error", "tx error"}

\* C11: after a Draw that transmitted data and whose transport calls succeeded,
\* the stored frame d.buffer and the diff baseline both equal the candidate
\* frame transmitted, on the differential path and on the full-size
\* HorizontalNibble path.
C11_DrawCommits ==
    (call.op = "Draw" /\ ret.err = "" /\ tx # <<>>) =>
        /\ d.buffer = Candidate(d, call)
        /\ Baseline(d) = Candidate(d, call)

\* What holds of C11: the differential path commits the frame it transmitted.
DifferentialDrawCommits ==
    (call.op = "Draw" /\ ret.err = "" /\ tx # <<>> /\ ~FastPath(d, call)) =>
        /\ d.buffer = d.next.Pix
        /\ Baseline(d) = d.next.Pix

\* A differential Draw has transmitted a region.
DifferentialDrawCommits_Witness ==
    call.op = "Draw" /\ ret.err = "" /\ tx # <<>> /\ ~FastPath(d, call)

\* A Write or Draw step in which the transport fails keeps the stored frame and
\* the diff baseline and returns the transport's error.
FailureKeepsCommitted ==
    (call'.op \in {"Write", "Draw"} /\ tx' # <<>> /\ ~tx'[Len(tx')].ok) =>
        /\ d'.buffer = d.buffer
        /\ Baseline(d') = Baseline(d)
        /\ ret'.err \in TransportErrors

\* This step repeats, with success, the Draw whose transport failed just before.
RetrySucceeds ==
    /\ call.op = "Draw" /\ TxFailed
    /\ call' = call /\ ncalls' = ncalls + 1
    /\ ret'.err = ""

\* A succeeding retry commits the candidate.
RetryCommits ==
    RetrySucceeds =>
        /\ d'.buffer = Candidate(d', call')
        /\ Baseline(d') = Candidate(d', call')

\* C12: when the transport fails during Write or Draw, the stored frame and the
\* diff baseline are what they were before the call and the transport's error
\* is returned; and when the identical Draw is retried and succeeds, they equal
\* the candidate after the succeeding call.
C12_FailureThenRetry == [][FailureKeepsCommitted /\ RetryCommits]_vars

\* What holds of C12: the failing call changes nothing of the committed frame,
\* and a succeeding retry on the differential path commits the candidate.
FailureThenDifferentialRetry ==
    [][/\ FailureKeepsCommitted
       /\ (RetrySucceeds /\ ~FastPath(d', call')) =>
             /\ d'.buffer = d'.next.Pix
             /\ Baseline(d') = d'.next.Pix]_vars

\* C13: a Draw that repeats the Draw made just before (same destination, source
\* and source point), which succeeded, returns success and makes no transport
\* call, whatever the kind of source image.
C13_RedrawIsNoOp ==
    (call.op = "Draw" /\ again = "afterOk") => (ret.err = "" /\ tx = <<>>)

\* What holds of C13: the redraw is a no-op on the differential path.
DifferentialRedrawIsNoOp ==
    (call.op = "Draw" /\ again = "afterOk" /\ ~FastPath(d, call)) =>
        (ret.err = "" /\ tx = <<>>)

\* What Draw call c computes on device dev: the changed rectangle, and the
\* transport calls (addressing commands and payload) it makes when none fails.
PlanOf(dev, c) ==
    LET dst == Intersect(c.dst, dev.rect)
    IN  IF dev.halted \/ Empty(dst) THEN [diff |-> "none", log |-> <<>>]
        ELSE IF FastPath(dev, c)
        THEN [diff |-> "full", log |-> writeFullFrame(dev, Bus(0), c.src.Pix).log]
        ELSE Let(DrawRender(dev, dst, c.src, c.sp), LAMBDA r :
                 [diff |-> r.diff, log |-> DrawSend(r.dev, r.diff, Bus(0)).bus.log])

\* The transport calls made are the first calls of the plan.
FollowsPlan(made, plan) ==
    /\ Len(made) <= Len(plan.log)
    /\ \A i \in 1..Len(made) : [made[i] EXCEPT !.ok = TRUE] = plan.log[i]

\* Every Draw step makes the transport calls of what Draw computes in the state
\* it starts from, and a failing one leaves a state in which the same call
\* computes the same changed rectangle, addressing commands and payload.
DrawFollowsPlan ==
    [][(call'.op = "Draw" /\ ~d.halted) =>
          \E plan \in {PlanOf(d, call')} :
            /\ FollowsPlan(tx', plan)
            /\ ret'.err # "" => \E retry \in {PlanOf(d', call')} : retry = plan]_vars

\* C14: retrying a Draw after a transport failure is idempotent: in the state a
\* Draw leaves when its transport has failed, whether it was a first attempt or
\* itself a retry, the same call computes the changed rectangle, the addressing
\* commands and the payload bytes the failed attempt had begun to transmit.
C14_RetryIdempotent ==
    (call.op = "Draw" /\ TxFailed) =>
        \E plan \in {PlanOf(d, call)} : FollowsPlan(tx, plan)

\* A differential Draw has been retried after a transport failure, and the
\* retry has failed again after sending the addressing commands.
C14_Witness ==
    /\ call.op = "Draw" /\ again = "afterFail" /\ ~d.halted
    /\ ~FastPath(d, call)
    /\ ret.err # "" /\ Len(tx) >= 3

(***************************************************************************)
(* Properties of calculateDiff and extractRegion (checked under SpecDiff). *)
(***************************************************************************)
\* calculateDiff has returned on the literal d.
Diffed == call.op = "calculateDiff" /\ ~ret.panic

\* The byte positions <<row, byte column>> at which d.lastDm and d.next differ.
DiffBytes ==
    { q \in (0..(Dy(d.rect) - 1)) \X (0..(GoDiv(Dx(d.rect), 2) - 1)) :
        d.lastDm.Pix[q[1] * GoDiv(Dx(d.rect), 2) + q[2] + 1]
            # d.next.Pix[q[1] * GoDiv(Dx(d.rect), 2) + q[2] + 1] }

\* The least and the greatest element of a non-empty set of integers.
Least(S) == CHOOSE x \in S : \A y \in S : x <= y
Greatest(S) == CHOOSE x \in S : \A y \in S : x >= y

\* C15: calculateDiff on a committed frame and a candidate frame that are
\* byte-for-byte identical reports no change (minCol > maxCol), for every frame
\* size including 1-row and 1-byte-wide frames.
C15_IdenticalNoChange ==
    (Diffed /\ d.lastDm.Pix = d.next.Pix) => ret.minCol > ret.maxCol

\* calculateDiff has reported no change on two identical non-zero frames of one
\* row and one byte.
C15_Witness ==
    /\ Diffed
    /\ d.rect = Rectangle(0, 0, 2, 1)
    /\ d.lastDm.Pix = <<171>> /\ d.next.Pix = <<171>>
    /\ ret.minCol > ret.maxCol

\* The rectangle r covers whole bytes and contains every differing byte.
CoversDiff(r) ==
    /\ r.minCol % 2 = 0 /\ r.maxCol % 2 = 1
    /\ \A q \in DiffBytes :
          /\ r.minRow <= q[1] /\ q[1] <= r.maxRow
          /\ r.minCol <= 2 * q[2] /\ 2 * q[2] + 1 <= r.maxCol

\* The rectangles within the frame.
FrameRects ==
    [minCol : 0..(Dx(d.rect) - 1), maxCol : 0..(Dx(d.rect) - 1),
     minRow : 0..(Dy(d.rect) - 1), maxRow : 0..(Dy(d.rect) - 1)]

\* C16: when the two frames differ, the rectangle calculateDiff returns is the
\* minimal byte-aligned bounding box of the differing bytes: minRow and maxRow
\* are the first and last rows with a differing byte, minCol = 2*i_min and
\* maxCol = 2*i_max + 1 for the smallest and largest differing byte columns, and
\* every byte-aligned rectangle that contains all differing bytes contains it;
\* a 4x2 frame whose row 0 changes from 0x00,0x00 to 0xAB,0xCD gives 0,3,0,0.
C16_MinimalBoundingBox ==
    /\ diffFrames(<<0, 0, 0, 0>>, <<171, 205, 0, 0>>, 4, 2) =
           [minCol |-> 0, maxCol |-> 3, minRow |-> 0, maxRow |-> 0]
    /\ (Diffed /\ DiffBytes # {}) =>
          /\ ret.minRow = Least({q[1] : q \in DiffBytes})
          /\ ret.maxRow = Greatest({q[1] : q \in DiffBytes})
          /\ ret.minCol = 2 * Least({q[2] : q \in DiffBytes})
          /\ ret.maxCol = 2 * Greatest({q[2] : q \in DiffBytes}) + 1
          /\ \A r \in FrameRects :
                CoversDiff(r) =>
                    /\ r.minCol <= ret.minCol /\ ret.maxCol <= r.maxCol
                    /\ r.minRow <= ret.minRow /\ ret.maxRow <= r.maxRow

\* calculateDiff has returned 0,3,0,0 on the frames of TestCalculateDiffWithChanges.
C16_Witness ==
    /\ Diffed
    /\ d.lastDm.Pix = <<0, 0, 0, 0>> /\ d.next.Pix = <<171, 205, 0, 0>>
    /\ d.rect = Rectangle(0, 0, 4, 2)
    /\ ret.minCol = 0 /\ ret.maxCol = 3 /\ ret.minRow = 0 /\ ret.maxRow = 0

\* C17: every byte position at which the committed frame and the candidate
\* frame differ lies inside the rectangle calculateDiff returns: for row y and
\* byte column i, minRow <= y <= maxRow, minCol <= 2i and 2i+1 <= maxCol.
C17_DiffInsideRectangle ==
    Diffed =>
        \A q \in DiffBytes :
            /\ ret.minRow <= q[1] /\ q[1] <= ret.maxRow
            /\ ret.minCol <= 2 * q[2] /\ 2 * q[2] + 1 <= ret.maxCol

\* calculateDiff has run on frames that differ in the first byte of the first
\* row and in the last byte of the last row.
C17_Witness ==
    /\ Diffed
    /\ d.rect = Rectangle(0, 0, 4, 2)
    /\ DiffBytes = {<<0, 0>>, <<1, 1>>}
    /\ ret.maxCol = 3 /\ ret.maxRow = 1

\* C18: whenever calculateDiff reports a change, the rectangle covers whole
\* bytes and lies in the frame: minCol is even, maxCol is odd,
\* 0 <= minCol < maxCol <= width-1 and 0 <= minRow <= maxRow <= height-1.
C18_RectangleAlignedInFrame ==
    (Diffed /\ ret.minCol <= ret.maxCol) =>
        /\ ret.minCol % 2 = 0 /\ ret.maxCol % 2 = 1
        /\ 0 <= ret.minCol /\ ret.minCol < ret.maxCol /\ ret.maxCol <= Dx(d.rect) - 1
        /\ 0 <= ret.minRow /\ ret.minRow <= ret.maxRow /\ ret.maxRow <= Dy(d.rect) - 1

\* calculateDiff has reported the last byte of the last row of a 4x2 frame.
C18_Witness ==
    /\ Diffed
    /\ d.rect = Rectangle(0, 0, 4, 2)
    /\ ret.minCol = 2 /\ ret.maxCol = 3 /\ ret.minRow = 1 /\ ret.maxRow = 1

\* extractRegion has been called on the literal d.
Extracted == call.op = "extractRegion"

\* The rectangle of call c is not inverted, covers whole bytes and lies in the
\* frame of dev.
AlignedInFrame(dev, c) ==
    /\ c.minCol % 2 = 0 /\ c.maxCol % 2 = 1
    /\ 0 <= c.minCol /\ c.minCol <= c.maxCol /\ c.maxCol <= Dx(dev.rect) - 1
    /\ 0 <= c.minRow /\ c.minRow <= c.maxRow /\ c.maxRow <= Dy(dev.rect) - 1

\* The byte of the candidate frame at row y, byte column i.
NextByte(dev, y, i) == dev.next.Pix[y * GoDiv(Dx(dev.rect), 2) + i + 1]

\* C19: for a byte-aligned rectangle inside the frame extractRegion returns,
\* row-major, for each row from minRow to maxRow the bytes at byte columns
\* minCol/2 through maxCol/2 of that row of the candidate frame, in all
\* ((maxCol-minCol+1)/2) * (maxRow-minRow+1) bytes; on the 8x2 frame
\* 0x00..0x77 the rectangle cols 2-5, row 0 gives 0x11,0x22.
C19_ExtractRegion ==
    /\ extractFrom(Ramp(8), 8, 2, 5, 0, 0) = [panic |-> FALSE, data |-> <<17, 34>>]
    /\ (Extracted /\ AlignedInFrame(d, call)) =>
          LET first == call.minCol \div 2
              last  == call.maxCol \div 2
              n     == last - first + 1
          IN  /\ ~ret.panic
              /\ Len(ret.data) =
                     ((call.maxCol - call.minCol + 1) \div 2) * (call.maxRow - call.minRow + 1)
              /\ \A y \in call.minRow..call.maxRow :
                    \A i \in first..last :
                        ret.data[(y - call.minRow) * n + (i - first) + 1] = NextByte(d, y, i)

\* extractRegion has returned the middle bytes of both rows of the 8x2 ramp.
C19_Witness ==
    /\ Extracted
    /\ d.rect = Rectangle(0, 0, 8, 2) /\ d.next.Pix = Ramp(8)
    /\ call.minCol = 2 /\ call.maxCol = 5 /\ call.minRow = 0 /\ call.maxRow = 1
    /\ ret.data = <<17, 34, 85, 102>>

\* The rectangle of call c is not inverted and starts at or after row 0, column 0.
Proper(c) ==
    /\ 0 <= c.minCol /\ c.minCol <= c.maxCol
    /\ 0 <= c.minRow /\ c.minRow <= c.maxRow

\* The rectangle of call c has a column beyond width-1 or a row beyond height-1
\* of the frame of dev.
BeyondFrame(dev, c) ==
    /\ Proper(c)
    /\ c.maxCol > Dx(dev.rect) - 1 \/ c.maxRow > Dy(dev.rect) - 1

\* Every byte of the payload data is the byte of the candidate frame at the row
\* and byte column of the rectangle of call c it stands for, and that row and
\* byte column exist in the frame.
BytesAsRequested(dev, c, data) ==
    LET n == (c.maxCol - c.minCol + 1) \div 2
    IN  \A k \in 0..(Len(data) - 1) :
            LET y == c.minRow + (k \div n)
                i == (c.minCol \div 2) + (k % n)
            IN  /\ y < Dy(dev.rect) /\ i < GoDiv(Dx(dev.rect), 2)
                /\ data[k + 1] = NextByte(dev, y, i)

\* C20: extractRegion fails, returning no payload, whenever the requested
\* rectangle is not fully contained in the frame (a column beyond width-1 or a
\* row beyond height-1), and it never returns bytes of another row or column
\* than the ones requested.
C20_OutOfRangeFails ==
    /\ (Extracted /\ BeyondFrame(d, call)) => (ret.panic /\ ret.data = <<>>)
    /\ (Extracted /\ Proper(call) /\ ~ret.panic) => BytesAsRequested(d, call, ret.data)

\* What holds of C20: within the frame the payload holds the requested bytes, and
\* extractRegion panics exactly when a row's slice ends beyond the whole frame.
ExtractWithinFrame ==
    (Extracted /\ Proper(call)) =>
        /\ ~BeyondFrame(d, call) => (~ret.panic /\ BytesAsRequested(d, call, ret.data))
        /\ ret.panic <=>
              (call.maxRow * GoDiv(Dx(d.rect), 2) + (call.minCol \div 2)
                  + ((call.maxCol - call.minCol + 1) \div 2) > Len(d.next.Pix))

\* extractRegion has returned bytes of two rows for a one-row rectangle that
\* reaches beyond the last column.
ExtractWithinFrame_Witness ==
    /\ Extracted /\ ~ret.panic
    /\ d.rect = Rectangle(0, 0, 4, 2) /\ d.next.Pix = Ramp(4)
    /\ call.minCol = 2 /\ call.maxCol = 5 /\ call.minRow = 0 /\ call.maxRow = 0
    /\ ret.data = <<17, 34>>

(***************************************************************************)
(* Addressing and ordering of what is sent (checked under Spec).           *)
(***************************************************************************)
\* The whole frame of dev as a rectangle of pixel columns and rows.
FullRect(dev) ==
    [minCol |-> 0, maxCol |-> Dx(dev.rect) - 1, minRow |-> 0, maxRow |-> Dy(dev.rect) - 1]

\* The addressing commands for rectangle r with centring offset off: column
\* window (0x15), row window (0x75), RAM-write enable (0x5C).
Addressing(off, r) ==
    <<21, (r.minCol + off) \div 2, (r.maxCol + off) \div 2, 117, r.minRow, r.maxRow, 92>>

\* The rectangle the step sends: the whole frame for Write and for a full-size
\* HorizontalNibble Draw, otherwise the difference between the baseline before
\* the step and the frame rendered in it.
SentRect ==
    IF call'.op = "Write" \/ FastPath(d, call') THEN FullRect(d)
    ELSE diffFrames(Baseline(d), d'.next.Pix, Dx(d.rect), Dy(d.rect))

\* The positions in log of the command transfers that set an address window.
WindowTransfers(log) ==
    { i \in 2..Len(log) :
        /\ log[i].op = "c.Tx" /\ log[i - 1].op = "dc.Out" /\ log[i - 1].level = "Low"
        /\ Len(log[i].w) = 7 /\ log[i].w[1] = 21 }

Created == call.op = "NewSPI" /\ d.live

\* The centring offset NewSPI gives a display w pixels wide.
OffsetOf(w) == NewDev(Opts(w, 1, FALSE, FALSE, FALSE, "nil")).columnOffset

\* C22: for every valid width W (even, 2..480) the centring offset is
\* (480 - W)/2 pixels and centres the frame in the 480-column RAM: the frame
\* occupies pixel columns offset .. offset+W-1 and as many columns are unused on
\* the left as on the right (offset + W + offset = 480); W=256 gives 112
\* (columns 112-367), W=128 gives 176 (columns 176-303), W=480 gives 0.
C22_CenteringOffset ==
    Created =>
        /\ d.columnOffset = (480 - Dx(d.rect)) \div 2
        /\ d.columnOffset + Dx(d.rect) + d.columnOffset = 480
        /\ \A i \in WindowTransfers(tx) :
              /\ tx[i].w[2] = d.columnOffset \div 2
              /\ tx[i].w[3] = (d.columnOffset + Dx(d.rect) - 1) \div 2
        /\ \A w \in 2..480 :
              w % 2 = 0 => /\ OffsetOf(w) = (480 - w) \div 2
                           /\ OffsetOf(w) + w + OffsetOf(w) = 480
        /\ OffsetOf(256) = 112 /\ 112 + 256 - 1 = 367
        /\ OffsetOf(128) = 176 /\ 176 + 128 - 1 = 303
        /\ OffsetOf(480) = 0

\* NewSPI has returned a 128x64 device with centring offset 176.
C22_Witness ==
    /\ Created
    /\ Dx(d.rect) = 128 /\ d.columnOffset = 176
    /\ WindowTransfers(tx) # {}

\* C23: for a 256-pixel-wide display the column address window the driver
\* sends for the full frame (command 0x15) is 0x1C through 0x5B.
C23_ColumnWindow256 ==
    (Created /\ Dx(d.rect) = 256) =>
        /\ WindowTransfers(tx) # {}
        /\ \A i \in WindowTransfers(tx) : tx[i].w[2] = 28 /\ tx[i].w[3] = 91
        /\ writeFullFrame(d, Bus(0), <<>>).log[2].w[2] = 28
        /\ writeFullFrame(d, Bus(0), <<>>).log[2].w[3] = 91

\* What holds of C23: the window sent for a 256-pixel-wide frame is 0x38
\* through 0xB7, by clearRAM and by writeFullFrame.
ColumnWindow256Sent ==
    (Created /\ Dx(d.rect) = 256) =>
        /\ WindowTransfers(tx) # {}
        /\ \A i \in WindowTransfers(tx) : tx[i].w[2] = 56 /\ tx[i].w[3] = 183
        /\ writeFullFrame(d, Bus(0), <<>>).log[2].w[2] = 56
        /\ writeFullFrame(d, Bus(0), <<>>).log[2].w[3] = 183

\* C24: Write with a correctly sized buffer on a device that is not halted
\* always transmits the entire buffer, whether or not it equals the committed
\* frame, addressed to the full frame rectangle: columns
\* (0 + columnOffset)/2 .. (W-1 + columnOffset)/2 and rows 0 .. H-1.
C24_WriteSendsWholeFrame ==
    (call.op = "Write" /\ ~d.halted /\ Len(call.pixels) = Len(d.buffer)) =>
        /\ tx # <<>>
        /\ Len(tx) >= 2 =>
              tx[2].w = <<21, (0 + d.columnOffset) \div 2,
                          (Dx(d.rect) - 1 + d.columnOffset) \div 2,
                          117, 0, Dy(d.rect) - 1, 92>>
        /\ TxOk =>
              /\ Len(tx) = 4
              /\ tx[4].op = "c.Tx" /\ tx[4].w = call.pixels
              /\ ret = Ret("", Len(call.pixels))

\* The frame just written has been written again, and sent again in full.
C24_Witness ==
    /\ call.op = "Write" /\ again = "afterOk" /\ ~d.halted
    /\ call.pixels = d.buffer /\ Len(d.buffer) = 4
    /\ TxOk /\ Len(tx) = 4 /\ tx[4].w = call.pixels

\* Transfer i of log is a data transfer: c.Tx with the data/command line high.
IsPayload(log, i) ==
    /\ i >= 2 /\ log[i].op = "c.Tx"
    /\ log[i - 1].op = "dc.Out" /\ log[i - 1].level = "High"

\* Transfer i of log is one command transfer carrying the column window, the
\* row window and the RAM-write enable.
IsWindow(log, i) ==
    /\ i >= 2 /\ log[i].op = "c.Tx"
    /\ log[i - 1].op = "dc.Out" /\ log[i - 1].level = "Low"
    /\ Len(log[i].w) = 7
    /\ log[i].w[1] = 21 /\ log[i].w[4] = 117 /\ log[i].w[7] = 92

\* C25: every region update is sent in a fixed order: one command transfer
\* (data/command line low) carrying the column window (0x15, start, end), the
\* row window (0x75, start, end) and the RAM-write enable (0x5C), and only
\* afterwards the payload as a data transfer (line high); if setting the line
\* or the command transfer fails, no payload byte is sent.
C25_RegionUpdateOrder ==
    /\ (call.op \in {"Write", "Draw"} /\ tx # <<>>) =>
          /\ tx[1].op = "dc.Out" /\ tx[1].level = "Low"
          /\ Len(tx) >= 2 => IsWindow(tx, 2)
          /\ Len(tx) >= 3 => (tx[3].op = "dc.Out" /\ tx[3].level = "High")
          /\ Len(tx) >= 4 => (IsPayload(tx, 4) /\ Len(tx) = 4)
    /\ \A i \in 1..Len(tx) :
          IsPayload(tx, i) =>
              /\ i >= 4 /\ IsWindow(tx, i - 2)
              /\ \A j \in 1..(i - 1) : tx[j].ok

\* The command transfer of a Draw has failed, and nothing was sent after it.
C25_Witness ==
    /\ call.op = "Draw" /\ Len(tx) = 2
    /\ IsWindow(tx, 2) /\ ~tx[2].ok
    /\ ret.err = "tx error"

\* In this step a Write or a Draw ends with a transport error.
FailingStep ==
    call'.op \in {"Write", "Draw"} /\ tx' # <<>> /\ ~tx'[Len(tx')].ok

\* C26: a transport error during Write or Draw leaves the whole state of the
\* device exactly as it was before the call: every mutable field, including the
\* pending frame buffer of the differential updates (d.next) and its lazy
\* initialization, is unchanged after the failed call.
C26_FailureChangesNothing == [][FailingStep => d' = d]_vars

\* What holds of C26: a failed Write and a failed full-size HorizontalNibble
\* Draw change no field; a failed differential Draw changes no field but d.next
\* and d.lastDm, which it creates if need be, and it leaves the rendered frame
\* in d.next and the frame it compares against as it was.
FailureKeepsAllButPending ==
    [][FailingStep =>
          /\ [d' EXCEPT !.next = d.next, !.lastDm = d.lastDm] = d
          /\ Baseline(d') = Baseline(d)
          /\ (call'.op = "Write" \/ FastPath(d, call')) => d' = d
          /\ (call'.op = "Draw" /\ ~FastPath(d, call')) => d'.next.st = "ok"]_vars

\* C27: the geometry is fixed at creation: across any sequence of Write, Draw,
\* Halt and control operations the frame width and height (Bounds), the
\* centring offset and the length of the committed buffer (W*H/2) never change.
C27_GeometryFixed ==
    [][/\ d.live =>
            /\ d'.live
            /\ d'.rect = d.rect
            /\ d'.columnOffset = d.columnOffset
            /\ Len(d'.buffer) = Len(d.buffer)
       /\ d'.live => Len(d'.buffer) = (Dx(d'.rect) * Dy(d'.rect)) \div 2]_vars

\* A 4x2 device has been drawn on differentially and then halted, and still
\* has the bounds, offset and buffer length it was created with.
C27_Witness ==
    /\ call.op = "Halt" /\ d.halted /\ d.next.st = "ok"
    /\ d.rect = Rectangle(0, 0, 4, 2) /\ d.columnOffset = 238 /\ Len(d.buffer) = 4
    /\ d.buffer # Zeros(4)

\* C28: Halt sets the halted flag unconditionally: the device is halted after
\* Halt returns whether it was already halted or not and whether sending the
\* display-off command (0xAE) succeeded or failed; Halt always attempts the
\* command, changes no other field, and on a send failure returns the
\* transport's error with the device still halted.
C28_HaltUnconditional ==
    [][call'.op = "Halt" =>
          /\ d' = [d EXCEPT !.halted = TRUE]
          /\ tx' # <<>>
          /\ tx'[1].op = "dc.Out" /\ tx'[1].level = "Low"
          /\ Len(tx') >= 2 => (Len(tx') = 2 /\ tx'[2].op = "c.Tx" /\ tx'[2].w = <<174>>)
          /\ ~tx'[Len(tx')].ok => ret'.err \in TransportErrors
          /\ tx'[Len(tx')].ok => (Len(tx') = 2 /\ ret'.err = "")]_vars

\* Halt has been called on a device already halted, the display-off command
\* has failed, and the device is halted.
C28_Witness ==
    /\ call.op = "Halt" /\ again = "afterOk"
    /\ TxFailed /\ ret.err = "tx error"
    /\ d.halted

(***************************************************************************)
(* The no-change result of calculateDiff (checked under SpecDiff).         *)
(***************************************************************************)
\* C29: calculateDiff returns exactly (minCol, maxCol, minRow, maxRow) =
\* (1, 0, 0, 0) when the two frames have no differences, for every frame size.
C29_NoChangeTuple ==
    (Diffed /\ d.lastDm.Pix = d.next.Pix) =>
        /\ ret.minCol = 1 /\ ret.maxCol = 0
        /\ ret.minRow = 0 /\ ret.maxRow = 0

\* What holds of C29: on frames without differences calculateDiff returns
\* (width, -1, height, -1).
NoChangeTupleReturned ==
    (Diffed /\ d.lastDm.Pix = d.next.Pix) =>
        /\ ret.minCol = Dx(d.rect) /\ ret.maxCol = -1
        /\ ret.minRow = Dy(d.rect) /\ ret.maxRow = -1

(***************************************************************************)
(* The initialization sequence (checked under Spec).                       *)
(***************************************************************************)
\* The positions of the SPI transfers in log.
Transfers(log) == { i \in 1..Len(log) : log[i].op = "c.Tx" }

\* Transfer i of log is the display-ON command.
IsDisplayOn(log, i) ==
    /\ i >= 2 /\ log[i].op = "c.Tx" /\ log[i].w = <<175>>
    /\ log[i - 1].op = "dc.Out" /\ log[i - 1].level = "Low"

\* Transfer i of log is the command transfer of the configuration commands.
IsConfiguration(log, i) ==
    /\ i >= 2 /\ log[i].op = "c.Tx"
    /\ log[i - 1].op = "dc.Out" /\ log[i - 1].level = "Low"
    /\ Len(log[i].w) = 37
    /\ log[i].w[1] = 253 /\ log[i].w[2] = 18 /\ log[i].w[3] = 174

\* C30: during NewSPI the initialization is ordered: the configuration commands
\* are sent first, then the display RAM window of the whole frame is cleared
\* with W*H/2 zero bytes, and the display-ON command (0xAF) is sent last and
\* only if every earlier step succeeded; if any step fails NewSPI returns the
\* error and no device, and display-ON has not been sent.
C30_InitOrder ==
    (call.op = "NewSPI" /\ tx # <<>>) =>
        LET o == Effective(call.opts)
            T == Transfers(tx)
        IN  /\ tx[1].op = "Connect"
            /\ \A i \in 2..Len(tx) : tx[i - 1].ok
            /\ T # {} => IsConfiguration(tx, Least(T))
            /\ \A i \in T :
                  /\ IsPayload(tx, i) =>
                        /\ tx[i].w = [k \in 1..((o.W * o.H) \div 2) |-> 0]
                        /\ IsWindow(tx, i - 2)
                        /\ tx[i - 2].w[5] = 0 /\ tx[i - 2].w[6] = o.H - 1
                        /\ IsConfiguration(tx, i - 4)
                  /\ IsDisplayOn(tx, i) => (i = Len(tx) /\ IsPayload(tx, i - 2))
            /\ ret.err = "" <=> TxOk
            /\ ret.err = "" => (d.live /\ IsDisplayOn(tx, Len(tx)))
            /\ ret.err # "" =>
                  /\ ~d.live
                  /\ \A i \in T : IsDisplayOn(tx, i) => ~tx[i].ok

\* NewSPI has failed while sending the zero bytes that clear the RAM: it has
\* returned the error and no device, and display-ON was not sent.
C30_Witness ==
    /\ call.op = "NewSPI" /\ ret.err = "tx error" /\ ~d.live
    /\ IsPayload(tx, Len(tx)) /\ ~tx[Len(tx)].ok
    /\ ~call.opts.nil /\ call.opts.RST = "pin"

(***************************************************************************)
(* What a differential update transmits (checked under SpecDiff).          *)
(***************************************************************************)
\* frame, a frame of a display width0 pixels wide, after the bytes of rectangle
\* c (pixel columns minCol..maxCol, rows minRow..maxRow) were overwritten row by
\* row with data.
Patched(frame, width0, c, data) ==
    LET stride    == width0 \div 2
        first     == c.minCol \div 2
        byteWidth == (c.maxCol - c.minCol + 1) \div 2
    IN  [i \in 1..Len(frame) |->
            LET y == (i - 1) \div stride
                x == (i - 1) % stride
            IN  IF /\ c.minRow <= y /\ y <= c.maxRow
                   /\ first <= x /\ x < first + byteWidth
                THEN data[(y - c.minRow) * byteWidth + (x - first) + 1]
                ELSE frame[i]]

\* C31: a differential update transmits exactly what is needed: for every
\* committed frame and candidate frame of the same size that differ,
\* calculateDiff reports a rectangle, and overwriting the committed frame's bytes
\* inside that rectangle with the payload extractRegion returns for it, row by
\* row, yields a frame byte-for-byte equal to the candidate.
C31_PatchYieldsCandidate ==
    /\ (Diffed /\ d.lastDm.Pix # d.next.Pix) => ret.minCol <= ret.maxCol
    /\ (Extracted /\ d.lastDm # ZeroImage) =>
          /\ d.lastDm.Pix # d.next.Pix
          /\ ~ret.panic
          /\ Len(ret.data) = ((call.maxCol - call.minCol + 1) \div 2)
                                * (call.maxRow - call.minRow + 1)
          /\ Patched(d.lastDm.Pix, Dx(d.rect), call, ret.data) = d.next.Pix

\* The payload of a rectangle smaller than the frame was extracted: the frames
\* differ in the second byte column of both rows of a 4x2 display.
C31_Witness ==
    /\ Extracted /\ d.lastDm # ZeroImage /\ ~ret.panic
    /\ d.rect = Rectangle(0, 0, 4, 2)
    /\ d.lastDm.Pix = <<171, 0, 171, 0>> /\ d.next.Pix = <<171, 171, 171, 171>>
    /\ call.minCol = 2 /\ call.maxCol = 3 /\ call.minRow = 0 /\ call.maxRow = 1
    /\ ret.data = <<171, 171>>

(***************************************************************************)
(* The display RAM behind the transport (checked under Spec): the          *)
(* controller stores the payload of a region write into the addressed      *)
(* window, cell by cell along each row of the window.                      *)
(***************************************************************************)
\* The frame region of the RAM of dev when nothing is known of its content.
UnknownRam(dev) == [i \in 1..Len(dev.buffer) |-> -1]

\* The frame region ram of dev after data was stored into the window w (the
\* seven addressing bytes); the first cell of a frame row is columnOffset/2.
Stored(ram, dev, w, data) ==
    LET stride == Dx(dev.rect) \div 2
        base   == dev.columnOffset \div 2
        n      == w[3] - w[2] + 1
    IN  [i \in 1..Len(ram) |->
            LET y == (i - 1) \div stride
                c == base + ((i - 1) % stride)
                k == (y - w[5]) * n + (c - w[2])
            IN  IF /\ w[5] <= y /\ y <= w[6] /\ w[2] <= c /\ c <= w[3]
                   /\ k < Len(data)
                THEN data[k + 1] ELSE ram[i]]

\* The successful payload transfers of log.
PayloadsStored(log) == { i \in 1..Len(log) : IsPayload(log, i) /\ log[i].ok }

\* ram after the region writes of log (an operation makes at most one).
RamAfter(ram, dev, log) ==
    IF PayloadsStored(log) = {} THEN ram
    ELSE LET i == Least(PayloadsStored(log))
         IN  Stored(ram, dev, log[i - 2].w, log[i].w)

\* What the operation just made is known to have left in the frame region: the
\* cells its region write stored, and -1 in the others.
RamWritten == RamAfter(UnknownRam(d), d, tx)

\* The operation just made wrote every cell of the frame region and every
\* transport call succeeded: NewSPI, Write, or Draw of a full-size
\* HorizontalNibble.
WholeFrameWritten ==
    /\ d.live /\ ~d.halted /\ ret.err = "" /\ PayloadsStored(tx) # {}
    /\ \/ call.op \in {"NewSPI", "Write"}
       \/ call.op = "Draw" /\ FastPath(d, call)
    /\ \A i \in 1..Len(d.buffer) : RamWritten[i] # -1

\* C32: with the display RAM modelled as above, after Write and Draw calls whose
\* transport calls all succeed, whenever a Draw returns success the frame region
\* of the display RAM equals the driver's pending frame: the frame accumulated
\* in d.next, or the source's pixels when a full-size HorizontalNibble was
\* drawn. Stated for a Draw that follows an operation which wrote the whole
\* frame, so that the RAM before the Draw is what that operation stored.
C32_DisplayShowsPending ==
    [][(/\ call'.op = "Draw" /\ ret'.err = ""
        /\ FastPath(d, call') \/ d'.next.st = "ok"
        /\ WholeFrameWritten) =>
          \E ram \in {RamAfter(RamWritten, d, tx')} :
              ram = Candidate(d', call')]_vars

(***************************************************************************)
(* Size and range of the address window (checked under Spec).              *)
(***************************************************************************)
\* The number of cells of the window named by the addressing bytes w.
WindowCells(w) == (w[3] - w[2] + 1) * (w[6] - w[5] + 1)

\* The width of the display the last operation addressed.
WidthAddressed == IF call.op = "NewSPI" THEN Effective(call.opts).W ELSE Dx(d.rect)

\* C33: for every region write the driver issues, for every valid width and
\* every rectangle it can produce, the addressed window has exactly as many
\* cells as the payload has bytes:
\* (columnEnd - columnStart + 1) * (rowEnd - rowStart + 1) = len(payload).
C33_WindowMatchesPayload ==
    \A i \in 1..Len(tx) :
        IsPayload(tx, i) => WindowCells(tx[i - 2].w) = Len(tx[i].w)

\* What holds of C33: the window has as many cells as the payload has bytes
\* when the width is a multiple of 4, which makes the centring offset even.
WindowMatchesPayloadOnEvenOffset ==
    \A i \in 1..Len(tx) :
        (IsPayload(tx, i) /\ WidthAddressed % 4 = 0) =>
            WindowCells(tx[i - 2].w) = Len(tx[i].w)

\* The addressing bytes writeRect sends for the rectangle of pixel columns
\* x0..x1 and rows y0..y1 on device dev.
BytesSent(dev, x0, x1, y0, y1) ==
    writeRect(dev, Bus(0), x0, y0, x1 - x0 + 1, y1 - y0 + 1, <<>>).log[2].w

\* The addressing bytes w name a window within the controller's RAM.
InRange(w) ==
    /\ 0 <= w[2] /\ w[2] <= w[3] /\ w[3] <= 239
    /\ 0 <= w[5] /\ w[5] <= w[6] /\ w[6] <= 127

\* NewSPI has just returned a device of the largest geometry, 480x128.
CreatedLargest == Created /\ d.rect = Rectangle(0, 0, 480, 128)

\* C34: for every valid geometry (W even in 2..480, H in 1..128) and every
\* rectangle inside the frame the addressing values converted to bytes are not
\* truncated: 0 <= columnStart <= columnEnd <= 239 and
\* 0 <= rowStart <= rowEnd <= 127, so the byte sent equals the integer computed.
\* Checked on every window the driver sends and, for every valid width and
\* height, on the rectangles from each pixel column to the last and from the
\* first to each, and likewise for the rows.
C34_AddressingNotTruncated ==
    /\ \A i \in 1..Len(tx) : IsWindow(tx, i) => InRange(tx[i].w)
    /\ CreatedLargest =>
          /\ \A w \in 2..480 :
                w % 2 = 0 =>
                  \E dev \in {NewDev(Opts(w, 1, FALSE, FALSE, FALSE, "nil"))} :
                    \A x \in 0..(w - 1) :
                      /\ InRange(BytesSent(dev, x, w - 1, 0, 0))
                      /\ BytesSent(dev, x, w - 1, 0, 0) =
                            Addressing(dev.columnOffset,
                                [minCol |-> x, maxCol |-> w - 1, minRow |-> 0, maxRow |-> 0])
                      /\ InRange(BytesSent(dev, 0, x, 0, 0))
                      /\ BytesSent(dev, 0, x, 0, 0) =
                            Addressing(dev.columnOffset,
                                [minCol |-> 0, maxCol |-> x, minRow |-> 0, maxRow |-> 0])
          /\ \A h \in 1..128 :
                \E dev \in {NewDev(Opts(2, h, FALSE, FALSE, FALSE, "nil"))} :
                  \A y \in 0..(h - 1) :
                    /\ InRange(BytesSent(dev, 0, 1, y, h - 1))
                    /\ BytesSent(dev, 0, 1, y, h - 1) =
                          Addressing(dev.columnOffset,
                              [minCol |-> 0, maxCol |-> 1, minRow |-> y, maxRow |-> h - 1])
                    /\ InRange(BytesSent(dev, 0, 1, 0, y))

\* NewSPI has cleared the RAM of a 480x128 display: the window sent reaches
\* the last cell column, 239, and the last row, 127.
C34_Witness ==
    /\ CreatedLargest
    /\ \E i \in 1..Len(tx) : IsWindow(tx, i) /\ tx[i].w = <<21, 0, 239, 117, 0, 127, 92>>
    /\ BytesSent(d, 0, 479, 0, 127) = <<21, 0, 239, 117, 0, 127, 92>>

(***************************************************************************)
(* The frame of a pixel write (checked under SpecImg).                     *)
(***************************************************************************)
\* Pixels q and r of store p are kept in the same byte.
SameByte(p, q, r) == pixOffset(p, q.X, q.Y).offset = pixOffset(p, r.X, r.Y).offset

\* C35: SetGray4/Set on an in-bounds pixel (x,y) changes only that pixel: every
\* other in-bounds pixel, including the pixel sharing the same byte, reads the
\* same with Gray4At before and after, for every image bounds (zero or
\* non-zero origin); the bounds, the stride and the number of bytes stay.
C35_SetChangesOnePixel ==
    (icall.op \in {"SetGray4", "Set"} /\ InBounds(icall.before, icall.x, icall.y)) =>
        /\ \A q \in PixelsOf(img) :
              q # Pt(icall.x, icall.y) =>
                  Gray4At(img, q.X, q.Y) = Gray4At(icall.before, q.X, q.Y)
        /\ img.Rect = icall.before.Rect /\ img.Stride = icall.before.Stride
        /\ Len(img.Pix) = Len(icall.before.Pix)
        /\ \A i \in 1..Len(img.Pix) :
              i # pixOffset(img, icall.x, icall.y).offset + 1 =>
                  img.Pix[i] = icall.before.Pix[i]

\* A pixel was written on a store with an odd Min.X while the pixel sharing its
\* byte held a non-zero value, which it still holds.
C35_Witness ==
    /\ icall.op \in {"SetGray4", "Set"} /\ InBounds(icall.before, icall.x, icall.y)
    /\ img.Rect.Min.X % 2 = 1
    /\ img # icall.before
    /\ \E q \in PixelsOf(img) :
          /\ q # Pt(icall.x, icall.y)
          /\ SameByte(img, q, Pt(icall.x, icall.y))
          /\ Gray4At(icall.before, q.X, q.Y).Y # 0
          /\ Gray4At(img, q.X, q.Y) = Gray4At(icall.before, q.X, q.Y)

(***************************************************************************)
(* Draw outside the display (checked under Spec).                          *)
(***************************************************************************)
\* Draw call c on device dev has a destination that does not intersect the
\* display bounds.
Outside(dev, c) == Empty(Intersect(c.dst, dev.rect))

\* C36: on a non-halted device, Draw with a destination rectangle that does not
\* intersect the display bounds returns success, performs no transport call and
\* changes no buffer or field of the device.
C36_DrawOutsideIsNoOp ==
    [][(call'.op = "Draw" /\ ~d.halted /\ Outside(d, call')) =>
          /\ ret'.err = ""
          /\ tx' = <<>>
          /\ d' = d]_vars

\* A Draw beside the display has returned success without a transport call, on
\* a device that holds a written frame and has no pending frame yet.
C36_Witness ==
    /\ call.op = "Draw" /\ ~d.halted /\ Outside(d, call)
    /\ call.dst # ZR
    /\ ret.err = "" /\ tx = <<>>
    /\ d.buffer = <<171, 171, 171, 171>> /\ d.next.st = "nil"

(***************************************************************************)
(* The color conversions (checked under SpecColor).                        *)
(***************************************************************************)
\* The weighted sum of toGray4 for the color c, as an integer that does not
\* wrap; it fits a uint32 when its quotient by 2^16 is below 2^16.
WeightedSum(c) == 299 * c.R + 587 * c.G + 114 * c.B + 500

\* What C37 says of RGBA and of the conversion of colors that are not Gray4,
\* and of the round trip.
ConversionAsComputed ==
    /\ call.op = "RGBA" =>
          /\ ret.R = (call.c.Y % 16) * 4369 /\ ret.G = ret.R /\ ret.B = ret.R
          /\ ret.A = 65535
    /\ (call.op = "Convert" /\ call.c.kind = "RGBA64") =>
          /\ WeightedSum(call.c) \div 65536 < 65536
          /\ ret = Gray4((WeightedSum(call.c) \div 1000) \div 4096)
          /\ ret.Y \in 0..15
          /\ call.c = Black => ret.Y = 0
          /\ call.c = White => ret.Y = 15
    /\ (call.op = "Convert" /\ call.c.kind = "RGBA64" /\ call.of.kind = "Gray4") =>
          /\ ret.Y = call.of.Y % 16
          /\ call.of.Y \in 0..15 => ret.Y = call.of.Y

\* C37: Gray4 conversion round-trips and stays in range: Gray4{Y}.RGBA() returns
\* r=g=b=(Y & 0xF)*0x1111 with alpha 0xFFFF; Gray4Model.Convert of any color
\* returns a Gray4 whose Y is in [0,15] (black gives 0, white gives 15), computed
\* for colors that are not Gray4 as ((299r + 587g + 114b + 500)/1000) >> 12 on
\* 16-bit channels without 32-bit overflow; and converting the RGBA color of
\* Gray4{Y} back gives Y for every Y in 0..15.
C37_Gray4Conversion ==
    /\ ConversionAsComputed
    /\ call.op = "Convert" => (ret.kind = "Gray4" /\ ret.Y \in 0..15)

\* What holds of C37: all of it but the range of a converted Gray4, which
\* Convert returns as it is, with whatever its high bits hold.
Gray4ConversionButIdentity ==
    /\ ConversionAsComputed
    /\ call.op = "Convert" => ret.kind = "Gray4"
    /\ (call.op = "Convert" /\ call.c.kind = "Gray4") => ret = call.c
    /\ (call.op = "Convert" /\ call.c.kind = "RGBA64") => ret.Y \in 0..15

====
